---- MODULE Spec2Model ----
(***************************************************************************)
(* A model of buildkit-cache-dance: the cache map resolver (opts.ts), the  *)
(* path/name safety layer (opts.ts), the transfer engine (inject-cache.ts, *)
(* extract-cache.ts, run.ts) and the entry point (index.ts).               *)
(*                                                                         *)
(* Strings of the program are sequences of one-character strings, so that  *)
(* the path and name transforms are computed character by character as the *)
(* code (and node's posix path module) computes them.                      *)
(***************************************************************************)
EXTENDS Naturals, Sequences, FiniteSets, TLC

\* ------------------------------------------------------------------------
\* Characters and strings
\* ------------------------------------------------------------------------

LowerSeq ==
  <<"a","b","c","d","e","f","g","h","i","j","k","l","m",
    "n","o","p","q","r","s","t","u","v","w","x","y","z">>

UpperSeq ==
  <<"A","B","C","D","E","F","G","H","I","J","K","L","M",
    "N","O","P","Q","R","S","T","U","V","W","X","Y","Z">>

DigitSeq == <<"0","1","2","3","4","5","6","7","8","9">>

Range(s) == { s[i] : i \in DOMAIN s }

\* [a-zA-Z0-9]
IsAlnum(c) == c \in Range(LowerSeq) \cup Range(UpperSeq) \cup Range(DigitSeq)

\* String.prototype.toLowerCase, one character
ToLowerChar(c) ==
  IF c \in Range(UpperSeq)
    THEN LowerSeq[CHOOSE i \in DOMAIN UpperSeq : UpperSeq[i] = c]
    ELSE c

StartsWith(s, pre) ==
  /\ Len(s) >= Len(pre)
  /\ SubSeq(s, 1, Len(pre)) = pre

Includes(s, sub) ==
  \E i \in 1..(Len(s) + 1) :
    /\ i + Len(sub) - 1 <= Len(s)
    /\ SubSeq(s, i, i + Len(sub) - 1) = sub

RECURSIVE Concat(_)
\* the concatenation of a sequence of strings
Concat(ss) == IF ss = <<>> THEN <<>> ELSE Head(ss) \o Concat(Tail(ss))

RECURSIVE JoinWith(_, _)
\* Array.prototype.join
JoinWith(ss, sep) ==
  IF ss = <<>> THEN <<>>
  ELSE IF Len(ss) = 1 THEN ss[1]
  ELSE ss[1] \o sep \o JoinWith(Tail(ss), sep)

RECURSIVE SplitOn(_, _)
\* String.prototype.split on one character
SplitOn(p, c) ==
  IF \A i \in DOMAIN p : p[i] # c
    THEN <<p>>
    ELSE LET k == CHOOSE i \in DOMAIN p :
                    p[i] = c /\ \A j \in 1..(i - 1) : p[j] # c
         IN  <<SubSeq(p, 1, k - 1)>> \o SplitOn(SubSeq(p, k + 1, Len(p)), c)

\* the segments of a path between its '/' characters (empty ones included)
SplitSlash(p) == SplitOn(p, "/")

\* ------------------------------------------------------------------------
\* node's posix path module, as used by opts.ts
\* ------------------------------------------------------------------------

DOTDOT == <<".", ".">>

\* path.isAbsolute
PathIsAbsolute(p) == Len(p) > 0 /\ p[1] = "/"

RECURSIVE NormalizeSegs(_, _, _)
\* normalizeString: drop "" and ".", resolve ".." against the segment before
NormalizeSegs(segs, acc, allowAboveRoot) ==
  IF segs = <<>> THEN acc
  ELSE LET s == Head(segs) IN
       IF s = <<>> \/ s = <<".">>
         THEN NormalizeSegs(Tail(segs), acc, allowAboveRoot)
       ELSE IF s = DOTDOT
         THEN IF acc # <<>> /\ acc[Len(acc)] # DOTDOT
                THEN NormalizeSegs(Tail(segs), SubSeq(acc, 1, Len(acc) - 1), allowAboveRoot)
              ELSE IF allowAboveRoot
                THEN NormalizeSegs(Tail(segs), Append(acc, s), allowAboveRoot)
              ELSE NormalizeSegs(Tail(segs), acc, allowAboveRoot)
       ELSE NormalizeSegs(Tail(segs), Append(acc, s), allowAboveRoot)

\* path.normalize
PathNormalize(p) ==
  IF p = <<>> THEN <<".">>
  ELSE LET abs      == PathIsAbsolute(p)
           trailing == p[Len(p)] = "/"
           body     == JoinWith(NormalizeSegs(SplitSlash(p), <<>>, ~abs), <<"/">>)
       IN  IF body = <<>>
             THEN IF abs THEN <<"/">>
                  ELSE IF trailing THEN <<".", "/">> ELSE <<".">>
           ELSE (IF abs THEN <<"/">> ELSE <<>>) \o body
                  \o (IF trailing THEN <<"/">> ELSE <<>>)

\* path.join of two arguments
PathJoin(a, b) ==
  LET joined == IF a = <<>> THEN b
                ELSE IF b = <<>> THEN a
                ELSE a \o <<"/">> \o b
  IN  IF joined = <<>> THEN <<".">> ELSE PathNormalize(joined)

\* path.basename: the part after the last '/', trailing '/' ignored
PathBasename(p) ==
  LET ends == { i \in DOMAIN p : p[i] # "/" } IN
  IF ends = {} THEN <<>>
  ELSE LET e == CHOOSE i \in ends : \A j \in ends : j <= i
           slashes == { i \in 1..e : p[i] = "/" }
           s == IF slashes = {} THEN 1
                ELSE 1 + (CHOOSE i \in slashes : \A j \in slashes : j <= i)
       IN  SubSeq(p, s, e)

\* ------------------------------------------------------------------------
\* Cache options (opts.ts).  CacheOptions is a bare target string or an
\* object; an object is the sequence of its <<key, value>> pairs in
\* Object.entries order.
\* ------------------------------------------------------------------------

TARGET == <<"t","a","r","g","e","t">>
ID     == <<"i","d">>
UID    == <<"u","i","d">>
GID    == <<"g","i","d">>

\* `type=cache,` and `target=` of the template literals of getMountArgsString
TYPE_CACHE == <<"t","y","p","e","=","c","a","c","h","e">>

StrOption(t) == [str |-> TRUE,  target |-> t,    entries |-> <<>>]
ObjOption(es) == [str |-> FALSE, target |-> <<>>, entries |-> es]

\* key in cacheOptions
HasKey(o, k) == \E i \in DOMAIN o.entries : o.entries[i][1] = k

\* cacheOptions[k]
ValueOf(o, k) ==
  o.entries[CHOOSE i \in DOMAIN o.entries : o.entries[i][1] = k][2]

\* getTargetPath returns (does not throw)
HasTargetPath(o) == o.str \/ HasKey(o, TARGET)

\* getTargetPath
GetTargetPath(o) == IF o.str THEN o.target ELSE ValueOf(o, TARGET)

\* getUID
GetUID(o) == IF ~o.str /\ HasKey(o, UID) THEN ValueOf(o, UID) ELSE <<>>

\* getGID
GetGID(o) == IF ~o.str /\ HasKey(o, GID) THEN ValueOf(o, GID) ELSE <<>>

\* a plausible regression of getMountArgsString: only the target is passed on
\* and the other options (the id among them) are dropped
GetMountArgsTargetOnly(o) ==
  TYPE_CACHE \o <<",">> \o TARGET \o <<"=">>
    \o (IF o.str THEN o.target
        ELSE IF HasKey(o, TARGET) THEN ValueOf(o, TARGET) ELSE <<>>)

\* getMountArgsString
GetMountArgsString(o) ==
  IF o.str
    THEN TYPE_CACHE \o <<",">> \o TARGET \o <<"=">> \o o.target
    ELSE TYPE_CACHE \o <<",">> \o
         JoinWith([i \in DOMAIN o.entries |->
                     o.entries[i][1] \o <<"=">> \o o.entries[i][2]], <<",">>)

\* ------------------------------------------------------------------------
\* Path/name safety layer (opts.ts)
\* ------------------------------------------------------------------------

RECURSIVE CollapseDashes(_)
\* .replace(/-+/g, '-')
CollapseDashes(s) ==
  IF Len(s) <= 1 THEN s
  ELSE IF s[1] = "-" /\ s[2] = "-" THEN CollapseDashes(Tail(s))
  ELSE <<s[1]>> \o CollapseDashes(Tail(s))

\* .replace(/^-|-$/g, '')
StripEdgeDashes(s) ==
  LET a == IF s # <<>> /\ s[1] = "-" THEN Tail(s) ELSE s
  IN  IF a # <<>> /\ a[Len(a)] = "-" THEN SubSeq(a, 1, Len(a) - 1) ELSE a

\* a generateUniqueSuffix without its toLowerCase
GenerateUniqueSuffixCased(pathStr) ==
  LET dashed == [i \in DOMAIN pathStr |->
                   IF IsAlnum(pathStr[i]) THEN pathStr[i] ELSE "-"]
  IN  StripEdgeDashes(CollapseDashes(dashed))

\* generateUniqueSuffix
GenerateUniqueSuffix(pathStr) ==
  LET dashed == [i \in DOMAIN pathStr |->
                   IF IsAlnum(pathStr[i]) THEN pathStr[i] ELSE "-"]
      trimmed == StripEdgeDashes(CollapseDashes(dashed))
  IN  [i \in DOMAIN trimmed |-> ToLowerChar(trimmed[i])]

\* the character class of dangerousChars in validateSafePath
DangerousChars ==
  {";", "|", "&", "$", "`", "\\", "'", "\"", "<", ">", "(", ")",
   "{", "}", "[", "]", "!", "#", "*", "?", "~"}

\* validateSafePath returns (does not throw)
ValidateSafePath(pathStr) ==
  /\ ~PathIsAbsolute(pathStr)
  /\ LET normalized == PathNormalize(pathStr)
     IN  /\ ~StartsWith(normalized, DOTDOT)
         /\ ~Includes(normalized, <<"/">> \o DOTDOT)
  /\ \A i \in DOMAIN pathStr : pathStr[i] \notin DangerousChars

\* sanitizeForDockerfile returns (does not throw): /^[a-zA-Z0-9/._\-=,]+$/
SanitizeForDockerfile(value) ==
  /\ value # <<>>
  /\ \A i \in DOMAIN value :
       IsAlnum(value[i]) \/ value[i] \in {"/", ".", "_", "-", "=", ","}

\* ------------------------------------------------------------------------
\* Options of one invocation (opts.ts)
\* ------------------------------------------------------------------------

\* a null of the program (cache-dir, an absent flag option)
Null == <<"<null>">>

DEFAULT_UTILITY_IMAGE == "ghcr.io/containerd/busybox:latest"
RSYNC_UTILITY_IMAGE   == "ghcr.io/hiromaily/cache-dance-rsync:latest"

\* isDebug
IsDebug(o) == o.debug = TRUE

\* isRsyncMode
IsRsyncMode(o) == o.rsync = TRUE

\* getUtilityImage
GetUtilityImage(o) ==
  IF o.image # "" /\ o.image # DEFAULT_UTILITY_IMAGE THEN o.image
  ELSE IF IsRsyncMode(o) THEN RSYNC_UTILITY_IMAGE
  ELSE DEFAULT_UTILITY_IMAGE

\* ------------------------------------------------------------------------
\* Cache map resolver (opts.ts).  A cache map is the sequence of its entries
\* in iteration order; the keys of the inputs hold no digit, so no key is an
\* integer index that Object.entries would move to the front.
\* ------------------------------------------------------------------------

Entry(s, o) == [source |-> s, options |-> o]

Sources(m) == { m[i].source : i \in DOMAIN m }

\* cacheMap[k] = o: replaces the value of an existing key in place, else appends
MapSet(m, k, o) ==
  IF k \in Sources(m)
    THEN [i \in DOMAIN m |-> IF m[i].source = k THEN Entry(k, o) ELSE m[i]]
    ELSE Append(m, Entry(k, o))

\* the target every discovered entry gets
CACHE_TARGET == <<"/","v","a","r","/","c","a","c","h","e","-","t","a","r","g","e","t">>

\* a flag of a RUN instruction: cache is whether it is named mount and has
\* type=cache, id and target are its options (Null when not given)
Flag(c, i, t) == [cache |-> c, id |-> i, target |-> t]

\* an id that is never missing: the empty string stands in for it
FlagIdOrEmpty(flag) ==
  IF flag.id # Null /\ flag.id # <<>> THEN flag.id
  ELSE IF flag.target # Null THEN flag.target ELSE <<>>

\* flag.getOption('id')?.getValue() || flag.getOption('target')?.getValue()
FlagId(flag) ==
  IF flag.id # Null /\ flag.id # <<>> THEN flag.id ELSE flag.target

RECURSIVE DockerfileLoop(_, _, _)
\* the loop of getCacheMapFromDockerfile over the cache mount flags
DockerfileLoop(flags, bindRoot, acc) ==
  IF flags = <<>> THEN [ok |-> TRUE, map |-> acc]
  ELSE IF ~Head(flags).cache THEN DockerfileLoop(Tail(flags), bindRoot, acc)
  ELSE LET id == FlagId(Head(flags)) IN
       IF id = Null THEN [ok |-> FALSE, map |-> <<>>]
       ELSE LET normalizedId == PathBasename(id)
                bindDir == IF bindRoot # Null
                             THEN PathJoin(bindRoot, normalizedId)
                             ELSE normalizedId
            IN  DockerfileLoop(Tail(flags), bindRoot,
                  MapSet(acc, bindDir,
                         ObjOption(<< <<ID, id>>, <<TARGET, CACHE_TARGET>> >>)))

\* a getCacheMapFromDockerfile that takes a Dockerfile it cannot read for one
\* without cache mounts
GetCacheMapFromDockerfileLenient(df, bindRoot) ==
  IF ~df.readable THEN [ok |-> TRUE, map |-> <<>>]
  ELSE DockerfileLoop(df.flags, bindRoot, <<>>)

\* getCacheMapFromDockerfile; df.readable is whether fs.readFile returns
GetCacheMapFromDockerfile(df, bindRoot) ==
  IF ~df.readable THEN [ok |-> FALSE, map |-> <<>>]
  ELSE DockerfileLoop(df.flags, bindRoot, <<>>)

RECURSIVE PrefixLoop(_, _, _)
\* the loop of getCacheMap that prefixes every key with cache-dir
PrefixLoop(raw, cacheDir, acc) ==
  IF raw = <<>> THEN acc
  ELSE LET normalizedSource == PathBasename(Head(raw).source)
           prefixedSource == PathJoin(cacheDir, normalizedSource)
       IN  PrefixLoop(Tail(raw), cacheDir,
                      MapSet(acc, prefixedSource, Head(raw).options))

\* a getCacheMap that returns the keys as given, cache-dir or not
GetCacheMapNoPrefix(o) ==
  IF ~o.cacheMap.valid THEN [ok |-> FALSE, map |-> <<>>]
  ELSE IF o.cacheMap.entries # <<>>
    THEN [ok |-> TRUE, map |-> o.cacheMap.entries]
  ELSE GetCacheMapFromDockerfile(o.dockerfile, o.cacheDir)

\* getCacheMap; o.cacheMap.valid is whether JSON.parse returns.  ok = FALSE is
\* the Error thrown from the catch block.
GetCacheMap(o) ==
  IF ~o.cacheMap.valid THEN [ok |-> FALSE, map |-> <<>>]
  ELSE IF o.cacheMap.entries # <<>>
    THEN IF o.cacheDir # Null /\ o.cacheDir # <<>>
           THEN [ok |-> TRUE, map |-> PrefixLoop(o.cacheMap.entries, o.cacheDir, <<>>)]
           ELSE [ok |-> TRUE, map |-> o.cacheMap.entries]
  ELSE GetCacheMapFromDockerfile(o.dockerfile, o.cacheDir)

\* ------------------------------------------------------------------------
\* Directories.  A directory is a function from file names to contents,
\* "none" for a file that is not there.
\* ------------------------------------------------------------------------

Files == {"f", "buildstamp"}

NoFile == "none"

EmptyFiles == [f \in Files |-> NoFile]

AbsentDir == [exists |-> FALSE, files |-> EmptyFiles]

Dir(fs) == [exists |-> TRUE, files |-> fs]

\* cp -p -R src/. dst : every file of src lands in dst, the others stay
CopyInto(dst, src) ==
  [f \in Files |-> IF src[f] # NoFile THEN src[f] ELSE dst[f]]

\* rsync -a --ignore-existing src/ dst/ : only the files dst lacks are copied
CopyIgnoreExisting(dst, src) ==
  [f \in Files |-> IF dst[f] = NoFile THEN src[f] ELSE dst[f]]

\* the states a transfer from `old` to `new` leaves when it stops part-way
PartialResults(old, new) ==
  LET changed == { f \in Files : old[f] # new[f] }
  IN  { [f \in Files |-> IF f \in S THEN new[f] ELSE old[f]] :
          S \in (SUBSET changed) \ {changed} }

\* BuildKit's identity of a cache mount: its id, and its target when no id is
\* given (the rule opts.ts cites for the discovered ids)
MountIdentity(mountArgs) ==
  LET parts == SplitOn(mountArgs, ",")
      ids == { i \in DOMAIN parts : StartsWith(parts[i], ID \o <<"=">>) }
      tgs == { i \in DOMAIN parts : StartsWith(parts[i], TARGET \o <<"=">>) }
      pick(S, n) == LET i == CHOOSE j \in S : \A k \in S : j <= k
                    IN  SubSeq(parts[i], n + 2, Len(parts[i]))
  IN  IF ids # {} THEN pick(ids, Len(ID))
      ELSE IF tgs # {} THEN pick(tgs, Len(TARGET))
      ELSE <<>>

\* ------------------------------------------------------------------------
\* Inputs of the transfer model
\* ------------------------------------------------------------------------

\* invocations of the program in one behaviour
MaxRuns == 2

\* external invocations and filesystem calls that fail in one behaviour
MaxFaults == 1

\* the default of scratch-dir
SCRATCH == <<"s","c","r","a","t","c","h">>

\* cache-map {"a": {"target": "/t", "id": "i"}, "b": "/u"}
CfgTwo ==
  [valid |-> TRUE,
   entries |-> << Entry(<<"a">>, ObjOption(<< <<TARGET, <<"/","t">>>>, <<ID, <<"i">>>> >>)),
                  Entry(<<"b">>, StrOption(<<"/","u">>)) >>]

\* cache-map {"..": "/t"}: a key validateSafePath rejects
CfgUnsafe ==
  [valid |-> TRUE, entries |-> << Entry(DOTDOT, StrOption(<<"/","t">>)) >>]

\* cache-map {"a": "/t;x"}: a target sanitizeForDockerfile rejects
CfgDirty ==
  [valid |-> TRUE, entries |-> << Entry(<<"a">>, StrOption(<<"/","t",";","x">>)) >>]

NoDockerfile == [readable |-> FALSE, flags |-> <<>>]

\* cache-map {"a": "/t"}
CfgOne ==
  [valid |-> TRUE, entries |-> << Entry(<<"a">>, StrOption(<<"/","t">>)) >>]

\* cache-map {"a": "/t", "b": {"id": "i"}}: a structured value without target
CfgNoTarget ==
  [valid |-> TRUE,
   entries |-> << Entry(<<"a">>, StrOption(<<"/","t">>)),
                  Entry(<<"b">>, ObjOption(<< <<ID, <<"i">>>> >>)) >>]

\* the options of the invocations: every combination of the flags, the debug
\* runs on the cache maps of one entry, the rsync runs on those with targets
OptsSet ==
  { o \in [cacheMap : {CfgOne, CfgTwo, CfgUnsafe, CfgDirty, CfgNoTarget},
           dockerfile : {NoDockerfile}, cacheDir : {Null}, scratchDir : {SCRATCH},
           skip : BOOLEAN, debug : BOOLEAN, rsync : BOOLEAN,
           image : {DEFAULT_UTILITY_IMAGE}, help : BOOLEAN] :
      /\ o.debug => o.cacheMap \notin {CfgTwo, CfgNoTarget}
      /\ o.rsync => o.cacheMap # CfgNoTarget }

\* a boolean option on the command line: absent, --name, or --no-name
FlagValues == {"unset", "on", "off"}

\* the action input of a boolean option; getInput gives "" when it is not set
InputValues == {"", "true", "false"}

\* a boolean option of parseOpts: the flag when it is given, else the default
\* of mri, (getInput(name) || dflt) === "true"
ParseBool(flag, input, dflt) ==
  IF flag = "on" THEN TRUE
  ELSE IF flag = "off" THEN FALSE
  ELSE (IF input # "" THEN input ELSE dflt) = "true"

\* parseOpts on the boolean options; base holds the other options as parsed
ParseOpts(a, base) ==
  [base EXCEPT !.skip = ParseBool(a.skipFlag, a.skipInput, "false"),
               !.debug = ParseBool(a.debugFlag, a.debugInput, "false"),
               !.rsync = ParseBool(a.rsyncFlag, a.rsyncInput, "true")]

\* the command line that sets every boolean option of o by a flag
ArgvOf(o) ==
  LET flag(b) == IF b THEN "on" ELSE "off"
  IN  [skipFlag |-> flag(o.skip), skipInput |-> "",
       debugFlag |-> flag(o.debug), debugInput |-> "",
       rsyncFlag |-> flag(o.rsync), rsyncInput |-> ""]

\* the sources of the boolean options of the parse on its own: rsync-mode
\* from every flag and every input, the two others from their inputs
ArgvSet ==
  [skipFlag : {"unset"}, skipInput : {"", "true"},
   debugFlag : {"unset"}, debugInput : {"", "true"},
   rsyncFlag : FlagValues, rsyncInput : InputValues]

\* the repository holds two copies of extract-cache.ts and of inject-cache.ts:
\* those under src/ and those under unnamed/
Trees == {"src", "unnamed"}

\* what a host cache directory holds before the first invocation
HostInits == {AbsentDir, Dir([EmptyFiles EXCEPT !["f"] = "C"])}

\* what a cache mount holds before the first invocation
MountInits == {EmptyFiles, [EmptyFiles EXCEPT !["f"] = "D"]}

\* ------------------------------------------------------------------------
\* State
\* ------------------------------------------------------------------------

VARIABLES
  argv,        \* where the boolean options come from: flags and action inputs
  opts,        \* the parsed options (parseOpts), the same in every invocation
  extractor,   \* the copy of extract-cache.ts that runs: "src" or "unnamed"
  injector,    \* the copy of inject-cache.ts that runs: "src" or "unnamed"
  pc,          \* where the running invocation is; "idle" between invocations
  extract,     \* opts.extract of the running invocation
  cacheMap,    \* the resolved cache map of the running invocation
  idx,         \* the index of the entry the for loop is at
  thrown,      \* an exception is pending while the finally block runs
  exit,        \* how the last invocation ended: "none", "running", "zero", "nonzero"
  runs,        \* invocations ended
  faults,      \* failures injected so far
  resolves,    \* calls of getCacheMap in the running invocation
  host,        \* host directories by path
  mount,       \* cache mounts of the builder by identity
  scratch,     \* the scratch directory
  images,      \* images of the engine by name: the files of /var/dance-cache
  containers,  \* containers of the engine by name: the files of /var/dance-cache
  p1, p2,      \* the child processes of runPiped: "none", "running", "ok", "failed"
  ops,         \* the operations issued in the running invocation, in order
  snap, rt,    \* history: the host directory an injection started from, and
               \* how far the inject/extract round trip of an entry has come
  xsnap, xt,   \* history: the host directory a first extraction left, and
               \* how far two extractions in a row of an entry have come
  stateFile,   \* the file GITHUB_STATE names: whether the variable is set,
               \* and the POST=true lines the file holds
  xpre,        \* history: the host directory of the entry when the
               \* extractCache that runs, or has just ended, started
  diag,        \* what the running invocation did for its diagnostics only,
               \* in order: "dumpInputs", "inspect", "--progress=plain"
  twin         \* the invocation the running one is compared with: the
               \* state it started from and the state it ended in

vars ==
  <<argv, opts, extractor, injector, pc, extract, cacheMap, idx, thrown, exit, runs, faults,
    resolves, host, mount, scratch, images, containers, p1, p2, ops,
    snap, rt, xsnap, xt, stateFile, xpre, diag, twin>>

NoRecipe == [kind |-> "none", from |-> "", mount |-> <<>>, target |-> <<>>,
             cmd |-> "", chown |-> <<>>]

NoScratch == [exists |-> FALSE, buildstamp |-> FALSE, dancefile |-> NoRecipe,
              dance |-> AbsentDir]

\* fs.mkdir(scratchDir) without the fs.rm before it: what is there stays
StaleScratch == [scratch EXCEPT !.exists = TRUE]

\* fs.rm(scratchDir) ; fs.mkdir(scratchDir)
FreshScratch == [exists |-> TRUE, buildstamp |-> FALSE, dancefile |-> NoRecipe,
                 dance |-> AbsentDir]

\* the identities of the mounts the entries of a cache map name
Identities(m) ==
  { MountIdentity(GetMountArgsString(m[i].options)) : i \in DOMAIN m }

\* no invocation to compare with
NoTwin == [phase |-> 0]

Init ==
  /\ opts \in OptsSet
  /\ argv = ArgvOf(opts)
  /\ extractor \in Trees
  /\ injector \in Trees
  /\ pc = "idle"
  /\ extract = FALSE
  /\ cacheMap = <<>>
  /\ idx = 0
  /\ thrown = FALSE
  /\ exit = "none"
  /\ runs = 0
  /\ faults = 0
  /\ resolves = 0
  /\ \E h \in HostInits : host = [s \in Sources(GetCacheMap(opts).map) |-> h]
  /\ \E m \in MountInits : mount = [i \in Identities(GetCacheMap(opts).map) |-> m]
  /\ scratch = NoScratch
  /\ images = <<>>
  /\ containers = <<>>
  /\ p1 = "none"
  /\ p2 = "none"
  /\ ops = <<>>
  /\ snap = [s \in Sources(GetCacheMap(opts).map) |-> EmptyFiles]
  /\ rt = [s \in Sources(GetCacheMap(opts).map) |-> "none"]
  /\ xsnap = [s \in Sources(GetCacheMap(opts).map) |-> AbsentDir]
  /\ xt = [s \in Sources(GetCacheMap(opts).map) |-> "none"]
  /\ stateFile = [set |-> TRUE, lines |-> 0]
  /\ xpre = AbsentDir
  /\ diag = <<>>
  /\ twin = NoTwin

\* ------------------------------------------------------------------------
\* Helpers of the actions
\* ------------------------------------------------------------------------

Put(fn, k, v) == [x \in (DOMAIN fn) \cup {k} |-> IF x = k THEN v ELSE fn[x]]

Del(fn, k) == [x \in (DOMAIN fn) \ {k} |-> fn[x]]

\* the fs.mkdir of the host directory left out: the directory stays as it is
MkdirSkipped(d) == d

\* fs.mkdir(cacheSource, { recursive: true }): an absent directory is created
\* empty, one that exists stays as it is
MkdirRecursive(d) == IF d.exists THEN d ELSE Dir(EmptyFiles)

\* the content of the cache mount of an identity; a mount never written is empty
MountOf(id) == IF id \in DOMAIN mount THEN mount[id] ELSE EmptyFiles

\* the states a failing transfer from `old` to `new` can leave
FailResults(old, new) == PartialResults(old, new) \cup {old}

\* the entry the for loop is at
Cur == cacheMap[idx]

CurSource == Cur.source

\* imageName of extractCache
ExtractImageName(cacheSource) == <<"dance:extract-", GenerateUniqueSuffix(cacheSource)>>

\* containerName of extractCache
ContainerName(cacheSource) == <<"cache-container-", GenerateUniqueSuffix(cacheSource)>>

\* imageName of injectCache
InjectImageName(cacheSource) == <<"dance:inject-", GenerateUniqueSuffix(cacheSource)>>

Log(op, ok) == Append(ops, [e |-> idx, op |-> op, ok |-> ok])

\* if (debugEnabled) await debugInspectDirectory(...): fs.stat, du, readdir
\* and find run inside try/catch, so the call reads and returns
Inspected == IF IsDebug(opts) THEN Append(diag, "inspect") ELSE diag

\* if (debugEnabled) buildArgs.push('--progress=plain')
Progress == IF IsDebug(opts) THEN Append(diag, "--progress=plain") ELSE diag

Log2(op, ok, op2, ok2) ==
  ops \o << [e |-> idx, op |-> op, ok |-> ok], [e |-> idx, op |-> op2, ok |-> ok2] >>

\* dancefileContent of extractCache: src/extract-cache.ts always copies with
\* cp, unnamed/ chooses rsync in rsync mode
ExtractRecipe(tr, o, containerImage, rsyncEnabled) ==
  [kind |-> "extract", from |-> containerImage,
   mount |-> GetMountArgsString(o), target |-> GetTargetPath(o),
   cmd |-> IF tr = "unnamed" /\ rsyncEnabled THEN "rsync -a" ELSE "cp -p -R",
   chown |-> <<>>]

\* dancefileContent of injectCache: src/inject-cache.ts always copies with cp,
\* unnamed/ chooses rsync --ignore-existing in rsync mode
InjectRecipe(tr, o, containerImage, rsyncEnabled) ==
  [kind |-> "inject", from |-> containerImage,
   mount |-> GetMountArgsString(o), target |-> GetTargetPath(o),
   cmd |-> IF tr = "unnamed" /\ rsyncEnabled
             THEN "rsync -a --ignore-existing" ELSE "cp -p -R",
   chown |-> IF GetUID(o) # <<>> \/ GetGID(o) # <<>>
               THEN GetUID(o) \o <<":">> \o GetGID(o) ELSE <<>>]

\* what the RUN line of a recipe leaves in its destination
RunCopy(cmd, dst, src) ==
  IF cmd = "rsync -a --ignore-existing" THEN CopyIgnoreExisting(dst, src)
  ELSE CopyInto(dst, src)

\* the first step of the finally block of extractCache in src/extract-cache.ts
ExtractFinally == "x_fin_rmi"

\* the first step of the finally block of extractCache in unnamed/
ExtractFinallyUnnamed == "x_fin_rmc"

\* an exception of the try block of injectCache skips its finally block
InjectFinallySkipped == "raise"

\* the first step of the finally block of injectCache
InjectFinally == "i_fin_rmi"

\* where control goes when a step of the try block of extractCache throws
ExtractCatch(tr) == IF tr = "unnamed" THEN ExtractFinallyUnnamed ELSE ExtractFinally

\* an error of a cleanup command is rethrown
CleanupEscalates(th, ok) == th \/ ~ok

\* try { await run(cleanup) } catch (error) { /* ignore */ } : the pending
\* exception after the cleanup command is the one before it
AfterCleanup(th, ok) == th

\* the exit code is zero whatever happened
ExitCodeZero(th) == "zero"

\* main(process.argv).catch(err => process.exit(1))
ExitCode(th) == IF th THEN "nonzero" ELSE "zero"

\* the loop stays at the entry it has processed
NextIndexStuck(i) == IF i = 0 THEN 1 ELSE i

\* the loop skips an entry
NextIndexSkipping(i) == i + 2

\* for (const [cacheSource, cacheOptions] of Object.entries(cacheMap))
NextIndex(i) == i + 1

\* skip-extraction is never honoured
SkipNever(o) == FALSE

\* if (opts["skip-extraction"]) return
SkipExtraction(o) == o.skip = TRUE

cfg == <<argv, opts, extractor, injector, twin>>

hist == <<snap, rt, xsnap, xt>>

\* ------------------------------------------------------------------------
\* main and the two loops
\* ------------------------------------------------------------------------

\* a main that appends the marker whenever GITHUB_STATE is set
WritesMarkerAlways(ex, set) == set

\* main appends POST=true to the file GITHUB_STATE names in the main step,
\* when the variable is set
WritesMarker(ex, set) == ~ex /\ set

\* the try block of dumpInputs throws: getCacheMap rejects, or getTargetPath
\* throws for an entry without a target
DumpInputsFails(o) ==
  LET r == GetCacheMap(o)
  IN  ~r.ok \/ \E i \in DOMAIN r.map : ~HasTargetPath(r.map[i].options)

\* a dumpInputs that lets the error of its try block escape
DumpInputsRethrows(failed) == failed

\* dumpInputs catches the error of its try block and logs it
DumpInputsThrows(failed) == FALSE

\* the error of dumpInputs rejects main: dumpInputs runs in debug mode only
DumpInputsEscapes == IsDebug(opts) /\ DumpInputsThrows(DumpInputsFails(opts))

\* main(args) up to the dispatch: parseOpts, setDebugMode, dumpInputs in debug
\* mode (it calls getCacheMap and catches its error), help, and the marker
\* of the main step; a failing appendFile rejects main
Main(ex) ==
  /\ pc = "idle"
  /\ runs < MaxRuns
  /\ extract' = ex
  /\ resolves' = IF IsDebug(opts) THEN 1 ELSE 0
  /\ diag' = IF IsDebug(opts) THEN <<"dumpInputs">> ELSE <<>>
  /\ cacheMap' = <<>>
  /\ idx' = 0
  /\ p1' = "none"
  /\ p2' = "none"
  /\ \/ /\ DumpInputsEscapes
        /\ pc' = "raise"
        /\ exit' = "running"
        /\ ops' = <<>>
        /\ thrown' = TRUE
        /\ UNCHANGED <<stateFile, faults, runs>>
     \/ /\ ~DumpInputsEscapes
        /\ opts.help
        /\ pc' = "idle"
        /\ exit' = ExitCode(FALSE)
        /\ runs' = runs + 1
        /\ ops' = <<>>
        /\ thrown' = FALSE
        /\ UNCHANGED <<stateFile, faults>>
     \/ /\ ~DumpInputsEscapes
        /\ ~opts.help
        /\ ~WritesMarker(ex, stateFile.set)
        /\ pc' = IF ex THEN "extractCaches" ELSE "injectCaches"
        /\ exit' = "running"
        /\ ops' = <<>>
        /\ thrown' = FALSE
        /\ UNCHANGED <<stateFile, faults, runs>>
     \/ /\ ~DumpInputsEscapes
        /\ ~opts.help
        /\ WritesMarker(ex, stateFile.set)
        /\ stateFile' = [stateFile EXCEPT !.lines = @ + 1]
        /\ pc' = IF ex THEN "extractCaches" ELSE "injectCaches"
        /\ exit' = "running"
        /\ ops' = <<[e |-> 0, op |-> "marker", ok |-> TRUE]>>
        /\ thrown' = FALSE
        /\ UNCHANGED <<faults, runs>>
     \/ /\ ~DumpInputsEscapes
        /\ ~opts.help
        /\ WritesMarker(ex, stateFile.set)
        /\ faults < MaxFaults
        /\ faults' = faults + 1
        /\ pc' = "raise"
        /\ exit' = "running"
        /\ ops' = <<[e |-> 0, op |-> "marker", ok |-> FALSE]>>
        /\ thrown' = TRUE
        /\ UNCHANGED <<stateFile, runs>>
  /\ UNCHANGED <<cfg, hist, xpre, host, mount, scratch, images, containers>>

\* main returns: the process ends with code 0
Finish ==
  /\ pc' = "idle"
  /\ exit' = ExitCode(FALSE)
  /\ runs' = runs + 1

\* extractCaches up to its loop
ExtractCaches ==
  /\ pc = "extractCaches"
  /\ IF SkipExtraction(opts)
       THEN /\ Finish
            /\ UNCHANGED <<cacheMap, resolves, thrown>>
       ELSE LET r == GetCacheMap(opts)
            IN  /\ resolves' = resolves + 1
                /\ cacheMap' = r.map
                /\ thrown' = ~r.ok
                /\ pc' = IF r.ok THEN "loop" ELSE "raise"
                /\ UNCHANGED <<exit, runs>>
  /\ UNCHANGED <<cfg, diag, stateFile, xpre, hist, extract, idx, faults, host, mount, scratch, images,
                 containers, p1, p2, ops>>

\* injectCaches up to its loop
InjectCaches ==
  /\ pc = "injectCaches"
  /\ LET r == GetCacheMap(opts)
     IN  /\ resolves' = resolves + 1
         /\ cacheMap' = r.map
         /\ thrown' = ~r.ok
         /\ pc' = IF r.ok THEN "loop" ELSE "raise"
  /\ UNCHANGED <<cfg, diag, stateFile, xpre, hist, extract, idx, exit, runs, faults, host, mount,
                 scratch, images, containers, p1, p2, ops>>

\* the head of the for loop of extractCaches and injectCaches
LoopNext ==
  /\ pc = "loop"
  /\ IF NextIndex(idx) > Len(cacheMap)
       THEN /\ Finish
            /\ UNCHANGED idx
       ELSE /\ idx' = NextIndex(idx)
            /\ pc' = IF extract THEN "x_prepare" ELSE "i_prepare"
            /\ UNCHANGED <<exit, runs>>
  /\ xpre' = AbsentDir
  /\ UNCHANGED <<cfg, diag, stateFile, hist, extract, cacheMap, thrown, faults, resolves, host,
                 mount, scratch, images, containers, p1, p2, ops>>

\* the rejection of main reaches its catch handler: process.exit(1)
Raise ==
  /\ pc = "raise"
  /\ pc' = "idle"
  /\ exit' = ExitCode(thrown)
  /\ runs' = runs + 1
  /\ ops' = Log("raise", FALSE)
  /\ rt' = [s \in DOMAIN rt |->
              IF idx \in DOMAIN cacheMap /\ s = CurSource THEN "none" ELSE rt[s]]
  /\ xt' = [s \in DOMAIN xt |->
              IF idx \in DOMAIN cacheMap /\ s = CurSource THEN "none" ELSE xt[s]]
  /\ xpre' = AbsentDir
  /\ UNCHANGED <<cfg, diag, stateFile, snap, xsnap, extract, cacheMap, idx, thrown, faults,
                 resolves, host, mount, scratch, images, containers, p1, p2>>

\* ------------------------------------------------------------------------
\* extractCache
\* ------------------------------------------------------------------------

\* extractCache up to its try block
ExtractPrepare ==
  /\ pc = "x_prepare"
  /\ LET src == CurSource
         o == Cur.options
         valid == ValidateSafePath(src) /\ ValidateSafePath(opts.scratchDir)
         clean == /\ HasTargetPath(o)
                  /\ SanitizeForDockerfile(GetTargetPath(o))
                  /\ SanitizeForDockerfile(GetMountArgsString(o))
         stamped == [FreshScratch EXCEPT !.buildstamp = TRUE]
     IN  /\ xpre' = host[src]
         /\ xt' = [xt EXCEPT ![src] = IF @ \in {"once", "twice"} THEN "second" ELSE "first"]
         /\ rt' = [rt EXCEPT ![src] = IF @ = "injected" THEN "extracting" ELSE "none"]
         /\ \/ /\ ~valid
               /\ thrown' = TRUE
               /\ pc' = "raise"
               /\ ops' = Log("prepare", FALSE)
               /\ UNCHANGED <<scratch, host, faults, diag>>
            \/ /\ valid
               /\ faults < MaxFaults
               /\ faults' = faults + 1
               /\ thrown' = TRUE
               /\ pc' = "raise"
               /\ ops' = Log("prepare", FALSE)
               /\ UNCHANGED <<scratch, host, diag>>
            \/ /\ valid
               /\ ~clean
               /\ scratch' = stamped
               /\ thrown' = TRUE
               /\ pc' = "raise"
               /\ ops' = Log("prepare", FALSE)
               /\ UNCHANGED <<host, faults, diag>>
            \/ /\ valid
               /\ clean
               /\ scratch' = [stamped EXCEPT !.dancefile =
                                ExtractRecipe(extractor, o, GetUtilityImage(opts), IsRsyncMode(opts))]
               /\ host' = IF extractor = "src" /\ ~host[src].exists
                            THEN [host EXCEPT ![src] = Dir(EmptyFiles)]
                            ELSE host
               /\ diag' = Inspected
               /\ pc' = "x_build"
               /\ UNCHANGED <<thrown, ops, faults>>
  /\ UNCHANGED <<cfg, stateFile, snap, xsnap, extract, cacheMap, idx, exit, runs, resolves,
                 mount, images, containers, p1, p2>>

\* docker buildx build -f Dancefile.extract --tag imageName --load scratchDir
XBuild ==
  /\ pc = "x_build"
  /\ LET r == scratch.dancefile
         img == ExtractImageName(CurSource)
         full == RunCopy(r.cmd, EmptyFiles, MountOf(MountIdentity(r.mount)))
     IN  \/ /\ images' = Put(images, img, full)
            /\ ops' = Log("build", TRUE)
            /\ pc' = "x_rm0"
            /\ UNCHANGED <<faults, thrown>>
         \/ /\ faults < MaxFaults
            /\ faults' = faults + 1
            /\ \E part \in PartialResults(EmptyFiles, full) :
                 images' = Put(images, img, part)
            /\ ops' = Log("build", TRUE)
            /\ pc' = "x_rm0"
            /\ UNCHANGED thrown
         \/ /\ faults < MaxFaults
            /\ faults' = faults + 1
            /\ thrown' = TRUE
            /\ ops' = Log("build", FALSE)
            /\ pc' = ExtractCatch(extractor)
            /\ UNCHANGED images
  /\ diag' = Progress
  /\ UNCHANGED <<cfg, stateFile, xpre, hist, extract, cacheMap, idx, exit, runs, resolves, host,
                 mount, scratch, containers, p1, p2>>

\* a docker rm -f that reports success and leaves the container
DockerRmKept(cs, c) == cs

\* the containers after a successful docker rm -f of container c
DockerRmForce(cs, c) == Del(cs, c)

\* docker rm -f containerName before the transfer; its error is ignored
XRm0 ==
  /\ pc = "x_rm0"
  /\ LET c == ContainerName(CurSource)
         next == IF extractor = "src" /\ IsRsyncMode(opts) THEN "x_sync" ELSE "x_create"
         step(ok) == /\ ops' = Log("rm0", ok)
                     /\ thrown' = AfterCleanup(thrown, ok)
                     /\ pc' = IF AfterCleanup(thrown, ok) THEN ExtractCatch(extractor) ELSE next
     IN  \/ /\ c \in DOMAIN containers
            /\ containers' = DockerRmForce(containers, c)
            /\ step(TRUE)
            /\ UNCHANGED faults
         \/ /\ c \in DOMAIN containers
            /\ faults < MaxFaults
            /\ faults' = faults + 1
            /\ step(FALSE)
            /\ UNCHANGED containers
         \/ /\ c \notin DOMAIN containers
            /\ step(FALSE)
            /\ UNCHANGED <<containers, faults>>
  /\ UNCHANGED <<cfg, diag, stateFile, xpre, hist, extract, cacheMap, idx, exit, runs, resolves, host,
                 mount, scratch, images, p1, p2>>

\* docker run --rm -v cacheSource:/mnt/host-cache imageName
\*   rsync -a --delete /var/dance-cache/ /mnt/host-cache/
XSync ==
  /\ pc = "x_sync"
  /\ LET src == CurSource
         new == images[ExtractImageName(src)]
     IN  \/ /\ host' = [host EXCEPT ![src] = Dir(new)]
            /\ ops' = Log("sync", TRUE)
            /\ pc' = ExtractFinally
            /\ diag' = Inspected
            /\ UNCHANGED <<faults, thrown>>
         \/ /\ faults < MaxFaults
            /\ faults' = faults + 1
            /\ \E part \in FailResults(host[src].files, new) :
                 host' = [host EXCEPT ![src] = Dir(part)]
            /\ ops' = Log("sync", FALSE)
            /\ thrown' = TRUE
            /\ pc' = ExtractCatch(extractor)
            /\ UNCHANGED diag
  /\ UNCHANGED <<cfg, stateFile, xpre, hist, extract, cacheMap, idx, exit, runs, resolves, mount,
                 scratch, images, containers, p1, p2>>

\* docker create -ti --name containerName imageName
XCreate ==
  /\ pc = "x_create"
  /\ LET c == ContainerName(CurSource)
         fail == /\ ops' = Log("create", FALSE)
                 /\ thrown' = TRUE
                 /\ pc' = ExtractCatch(extractor)
                 /\ UNCHANGED containers
     IN  \/ /\ c \notin DOMAIN containers
            /\ containers' = Put(containers, c, images[ExtractImageName(CurSource)])
            /\ ops' = Log("create", TRUE)
            /\ pc' = "x_pipe"
            /\ UNCHANGED <<faults, thrown>>
         \/ /\ c \notin DOMAIN containers
            /\ faults < MaxFaults
            /\ faults' = faults + 1
            /\ fail
         \/ /\ c \in DOMAIN containers
            /\ fail
            /\ UNCHANGED faults
  /\ UNCHANGED <<cfg, diag, stateFile, xpre, hist, extract, cacheMap, idx, exit, runs, resolves, host,
                 mount, scratch, images, p1, p2>>

\* runPiped: both children are spawned and piped
XPipeSpawn ==
  /\ pc = "x_pipe"
  /\ p1' = "running"
  /\ p2' = "running"
  /\ pc' = "x_settle"
  /\ UNCHANGED <<cfg, diag, stateFile, xpre, hist, extract, cacheMap, idx, thrown, exit, runs, faults,
                 resolves, host, mount, scratch, images, containers, ops>>

\* docker cp -L containerName:/var/dance-cache - closes
Child1Exit ==
  /\ p1 = "running"
  /\ \/ /\ p1' = "ok"
        /\ UNCHANGED faults
     \/ /\ faults < MaxFaults
        /\ faults' = faults + 1
        /\ p1' = "failed"
  /\ UNCHANGED <<cfg, diag, stateFile, xpre, hist, pc, extract, cacheMap, idx, thrown, exit, runs,
                 resolves, host, mount, scratch, images, containers, p2, ops>>

\* an archive of the files alone, without the directory that holds them: from
\* an empty directory nothing is unpacked
UnpackedFilesOnly(sent) == IF sent = EmptyFiles THEN AbsentDir ELSE Dir(sent)

\* docker cp containerName:/var/dance-cache - archives the directory itself:
\* tar unpacks scratchDir/dance-cache even when it holds no file
Unpacked(sent) == Dir(sent)

\* tar -H posix -x -C scratchDir closes: it has unpacked what it was sent
Child2Exit ==
  /\ p2 = "running"
  /\ LET c == ContainerName(CurSource)
         sent == IF c \in DOMAIN containers THEN containers[c] ELSE EmptyFiles
     IN  \/ /\ p1 # "failed"
            /\ p2' = "ok"
            /\ scratch' = [scratch EXCEPT !.dance = Unpacked(sent)]
            /\ UNCHANGED faults
         \/ /\ p1 # "failed"
            /\ faults < MaxFaults
            /\ faults' = faults + 1
            /\ p2' = "failed"
            /\ \E part \in FailResults(EmptyFiles, sent) :
                 scratch' = [scratch EXCEPT !.dance = Dir(part)]
         \/ /\ p1 = "failed"
            /\ p2' = "failed"
            /\ \E part \in FailResults(EmptyFiles, sent) :
                 scratch' = [scratch EXCEPT !.dance = Dir(part)]
            /\ UNCHANGED faults
  /\ UNCHANGED <<cfg, diag, stateFile, xpre, hist, pc, extract, cacheMap, idx, thrown, exit, runs,
                 resolves, host, mount, images, containers, p1, ops>>

\* a rejection of runPiped that is not awaited: extractCache goes on
AfterPipeIgnored(ok) == "x_rmhost"

\* after await runPiped(...): the host directory is replaced when it resolved,
\* its rejection leaves the try block
AfterPipe(ok) == IF ok THEN "x_rmhost" ELSE ExtractCatch(extractor)

\* a pipeline that awaits its first child alone
AllSucceededFirst(a, b) == a = "ok"

\* Promise.all([assertSuccess(cp1), assertSuccess(cp2)]) resolves: both
\* children have closed with code 0
AllSucceeded(a, b) == a = "ok" /\ b = "ok"

\* await Promise.all([assertSuccess(cp1), assertSuccess(cp2)]) settles: it
\* rejects with the first child that fails, and resolves when both closed with 0
XPipeSettle ==
  /\ pc = "x_settle"
  /\ \/ /\ AllSucceeded(p1, p2)
        /\ ops' = Log("pipe", TRUE)
        /\ pc' = AfterPipe(TRUE)
        /\ diag' = Inspected
        /\ UNCHANGED thrown
     \/ /\ p1 = "failed" \/ p2 = "failed"
        /\ ops' = Log("pipe", FALSE)
        /\ thrown' = TRUE
        /\ pc' = AfterPipe(FALSE)
        /\ UNCHANGED diag
  /\ UNCHANGED <<cfg, stateFile, xpre, hist, extract, cacheMap, idx, exit, runs, faults, resolves,
                 host, mount, scratch, images, containers, p1, p2>>

\* sudo rm -rf cacheSource
XRmHost ==
  /\ pc = "x_rmhost"
  /\ LET src == CurSource
     IN  \/ /\ host' = [host EXCEPT ![src] = AbsentDir]
            /\ ops' = Log("rmhost", TRUE)
            /\ pc' = "x_rename"
            /\ UNCHANGED <<faults, thrown>>
         \/ /\ faults < MaxFaults
            /\ faults' = faults + 1
            /\ \E part \in FailResults(host[src].files, EmptyFiles) :
                 host' = IF host[src].exists
                           THEN [host EXCEPT ![src] = Dir(part)] ELSE host
            /\ ops' = Log("rmhost", FALSE)
            /\ thrown' = TRUE
            /\ pc' = ExtractCatch(extractor)
  /\ UNCHANGED <<cfg, diag, stateFile, xpre, hist, extract, cacheMap, idx, exit, runs, resolves, mount,
                 scratch, images, containers, p1, p2>>

\* fs.rename(scratchDir/dance-cache, cacheSource)
XRename ==
  /\ pc = "x_rename"
  /\ LET src == CurSource
         next == IF extractor = "src" THEN "x_rmc" ELSE ExtractCatch(extractor)
     IN  \/ /\ scratch.dance.exists
            /\ host' = [host EXCEPT ![src] = scratch.dance]
            /\ scratch' = [scratch EXCEPT !.dance = AbsentDir]
            /\ ops' = Log("rename", TRUE)
            /\ pc' = next
            /\ diag' = IF extractor = "unnamed" THEN Inspected ELSE diag
            /\ UNCHANGED <<faults, thrown>>
         \/ /\ faults < MaxFaults
            /\ faults' = faults + 1
            /\ ops' = Log("rename", FALSE)
            /\ thrown' = TRUE
            /\ pc' = ExtractCatch(extractor)
            /\ UNCHANGED <<host, scratch, diag>>
         \/ /\ ~scratch.dance.exists
            /\ ops' = Log("rename", FALSE)
            /\ thrown' = TRUE
            /\ pc' = ExtractCatch(extractor)
            /\ UNCHANGED <<host, scratch, faults, diag>>
  /\ UNCHANGED <<cfg, stateFile, xpre, hist, extract, cacheMap, idx, exit, runs, resolves, mount,
                 images, containers, p1, p2>>

\* docker rm -f containerName, with its error ignored
RemoveContainer(op, next) ==
  LET c == ContainerName(CurSource)
      step(ok) == /\ ops' = Log(op, ok)
                  /\ thrown' = AfterCleanup(thrown, ok)
                  /\ pc' = next
  IN  \/ /\ c \in DOMAIN containers
         /\ containers' = Del(containers, c)
         /\ step(TRUE)
         /\ UNCHANGED faults
      \/ /\ c \in DOMAIN containers
         /\ faults < MaxFaults
         /\ faults' = faults + 1
         /\ step(FALSE)
         /\ UNCHANGED containers
      \/ /\ c \notin DOMAIN containers
         /\ step(FALSE)
         /\ UNCHANGED <<containers, faults>>

\* the container cleanup that ends the cp branch of the try block of
\* src/extract-cache.ts
XRmc ==
  /\ pc = "x_rmc"
  /\ RemoveContainer("rmc", ExtractFinally)
  /\ diag' = Inspected
  /\ UNCHANGED <<cfg, stateFile, xpre, hist, extract, cacheMap, idx, exit, runs, resolves, host,
                 mount, scratch, images, p1, p2>>

\* the container cleanup of the finally block of unnamed/
XFinRmc ==
  /\ pc = "x_fin_rmc"
  /\ RemoveContainer("rmc", "x_fin_rmi")
  /\ UNCHANGED <<cfg, diag, stateFile, xpre, hist, extract, cacheMap, idx, exit, runs, resolves, host,
                 mount, scratch, images, p1, p2>>

\* docker rmi -f imageName exits with success (ok) or with an error
RemoveImage(img, ok) ==
  \/ /\ img \in DOMAIN images
     /\ ok
     /\ images' = Del(images, img)
     /\ UNCHANGED faults
  \/ /\ img \in DOMAIN images
     /\ ~ok
     /\ faults < MaxFaults
     /\ faults' = faults + 1
     /\ UNCHANGED images
  \/ /\ img \notin DOMAIN images
     /\ ~ok
     /\ UNCHANGED <<images, faults>>

\* the image cleanup of the finally block of extractCache, and its return
XFinRmi ==
  /\ pc = "x_fin_rmi"
  /\ LET src == CurSource
         done(ok) ==
           /\ thrown' = AfterCleanup(thrown, ok)
           /\ IF AfterCleanup(thrown, ok)
                THEN /\ pc' = "raise"
                     /\ ops' = Log("rmi", ok)
                     /\ UNCHANGED hist
                ELSE /\ pc' = "loop"
                     /\ ops' = Log2("rmi", ok, "return", TRUE)
                     /\ xt' = [xt EXCEPT ![src] = IF @ = "second" THEN "twice" ELSE "once"]
                     /\ xsnap' = [xsnap EXCEPT ![src] = IF xt[src] = "second" THEN @ ELSE host[src]]
                     /\ rt' = [rt EXCEPT ![src] = IF @ = "extracting" THEN "extracted" ELSE "none"]
                     /\ UNCHANGED snap
     IN  \E ok \in BOOLEAN : RemoveImage(ExtractImageName(src), ok) /\ done(ok)
  /\ UNCHANGED <<cfg, diag, stateFile, xpre, extract, cacheMap, idx, exit, runs, resolves, host, mount,
                 scratch, containers, p1, p2>>

\* ------------------------------------------------------------------------
\* injectCache
\* ------------------------------------------------------------------------

\* injectCache up to its try block; src/inject-cache.ts neither validates
\* the paths nor sanitizes the recipe values
InjectPrepare ==
  /\ pc = "i_prepare"
  /\ LET src == CurSource
         o == Cur.options
         valid == injector = "unnamed" =>
                    ValidateSafePath(src) /\ ValidateSafePath(opts.scratchDir)
         clean == /\ HasTargetPath(o)
                  /\ injector = "unnamed" =>
                       /\ SanitizeForDockerfile(GetTargetPath(o))
                       /\ SanitizeForDockerfile(GetMountArgsString(o))
         image == IF injector = "unnamed" THEN GetUtilityImage(opts) ELSE opts.image
         before == IF host[src].exists THEN host[src].files ELSE EmptyFiles
         made == MkdirRecursive(host[src])
         stamped == [host EXCEPT ![src] = Dir([made.files EXCEPT !["buildstamp"] = "S"])]
     IN  /\ xt' = [xt EXCEPT ![src] = "none"]
         /\ rt' = [rt EXCEPT ![src] = "injecting"]
         /\ snap' = [snap EXCEPT ![src] = before]
         /\ \/ /\ ~valid
               /\ thrown' = TRUE
               /\ pc' = "raise"
               /\ ops' = Log("prepare", FALSE)
               /\ UNCHANGED <<scratch, host, faults, diag>>
            \/ /\ valid
               /\ faults < MaxFaults
               /\ faults' = faults + 1
               /\ thrown' = TRUE
               /\ pc' = "raise"
               /\ ops' = Log("prepare", FALSE)
               /\ UNCHANGED <<scratch, host, diag>>
            \/ /\ valid
               /\ ~made.exists
               /\ scratch' = FreshScratch
               /\ thrown' = TRUE
               /\ pc' = "raise"
               /\ ops' = Log("prepare", FALSE)
               /\ UNCHANGED <<host, faults, diag>>
            \/ /\ valid
               /\ made.exists
               /\ ~clean
               /\ scratch' = FreshScratch
               /\ host' = stamped
               /\ diag' = Inspected
               /\ thrown' = TRUE
               /\ pc' = "raise"
               /\ ops' = Log("prepare", FALSE)
               /\ UNCHANGED faults
            \/ /\ valid
               /\ made.exists
               /\ clean
               /\ scratch' = [FreshScratch EXCEPT !.dancefile =
                                InjectRecipe(injector, o, image, IsRsyncMode(opts))]
               /\ host' = stamped
               /\ diag' = Inspected
               /\ pc' = "i_build"
               /\ UNCHANGED <<thrown, ops, faults>>
  /\ UNCHANGED <<cfg, stateFile, xpre, xsnap, extract, cacheMap, idx, exit, runs, resolves, mount,
                 images, containers, p1, p2>>

\* docker buildx build -f Dancefile.inject --tag imageName cacheSource
IBuild ==
  /\ pc = "i_build"
  /\ LET r == scratch.dancefile
         id == MountIdentity(r.mount)
         img == InjectImageName(CurSource)
         old == MountOf(id)
         full == RunCopy(r.cmd, old, host[CurSource].files)
     IN  \/ /\ mount' = Put(mount, id, full)
            /\ images' = Put(images, img, EmptyFiles)
            /\ ops' = Log("build", TRUE)
            /\ pc' = InjectFinally
            /\ UNCHANGED <<faults, thrown>>
         \/ /\ faults < MaxFaults
            /\ faults' = faults + 1
            /\ \E part \in PartialResults(old, full) : mount' = Put(mount, id, part)
            /\ images' = Put(images, img, EmptyFiles)
            /\ ops' = Log("build", TRUE)
            /\ pc' = InjectFinally
            /\ UNCHANGED thrown
         \/ /\ faults < MaxFaults
            /\ faults' = faults + 1
            /\ thrown' = TRUE
            /\ ops' = Log("build", FALSE)
            /\ pc' = InjectFinally
            /\ UNCHANGED <<mount, images>>
  /\ diag' = Progress
  /\ UNCHANGED <<cfg, stateFile, xpre, hist, extract, cacheMap, idx, exit, runs, resolves, host,
                 scratch, containers, p1, p2>>

\* a finally block of injectCache that swallows the exception of the build
AfterInjectFinallySwallowed(th) == "i_rmhost"

\* after the finally block of injectCache: a pending exception leaves the
\* function, otherwise the host directory is removed
AfterInjectFinally(th) == IF th THEN "raise" ELSE "i_rmhost"

\* the image cleanup of the finally block of injectCache
IFinRmi ==
  /\ pc = "i_fin_rmi"
  /\ LET done(ok) ==
           /\ thrown' = AfterCleanup(thrown, ok)
           /\ pc' = AfterInjectFinally(AfterCleanup(thrown, ok))
           /\ ops' = Log("rmi", ok)
     IN  \E ok \in BOOLEAN : RemoveImage(InjectImageName(CurSource), ok) /\ done(ok)
  /\ UNCHANGED <<cfg, diag, stateFile, xpre, hist, extract, cacheMap, idx, exit, runs, resolves, host,
                 mount, scratch, containers, p1, p2>>

\* fs.rm(cacheSource) after the injection, with its error turned into a
\* notice, and the return of injectCache
IRmHost ==
  /\ pc = "i_rmhost"
  /\ LET src == CurSource
         done(ok) ==
           /\ thrown' = AfterCleanup(thrown, ok)
           /\ IF AfterCleanup(thrown, ok)
                THEN /\ pc' = "raise"
                     /\ ops' = Log("clean", ok)
                     /\ UNCHANGED rt
                ELSE /\ pc' = "loop"
                     /\ ops' = Log2("clean", ok, "return", TRUE)
                     /\ rt' = [rt EXCEPT ![src] = "injected"]
     IN  \/ /\ host' = [host EXCEPT ![src] = AbsentDir]
            /\ done(TRUE)
            /\ UNCHANGED faults
         \/ /\ faults < MaxFaults
            /\ faults' = faults + 1
            /\ done(FALSE)
            /\ UNCHANGED host
  /\ UNCHANGED <<cfg, diag, stateFile, xpre, snap, xsnap, xt, extract, cacheMap, idx, exit, runs,
                 resolves, mount, scratch, images, containers, p1, p2>>

Next ==
  \/ \E ex \in BOOLEAN : Main(ex)
  \/ ExtractCaches
  \/ InjectCaches
  \/ LoopNext
  \/ Raise
  \/ ExtractPrepare
  \/ XBuild
  \/ XRm0
  \/ XSync
  \/ XCreate
  \/ XPipeSpawn
  \/ Child1Exit
  \/ Child2Exit
  \/ XPipeSettle
  \/ XRmHost
  \/ XRename
  \/ XRmc
  \/ XFinRmc
  \/ XFinRmi
  \/ InjectPrepare
  \/ IBuild
  \/ IFinRmi
  \/ IRmHost

Spec == Init /\ [][Next]_vars

\* ------------------------------------------------------------------------
\* The invocations in which every command and file operation returns: every
\* step of a running invocation that can be taken is taken in the end.  A
\* new invocation (Main) is started by the workflow, or never.
\* ------------------------------------------------------------------------

Running ==
  \/ ExtractCaches
  \/ InjectCaches
  \/ LoopNext
  \/ Raise
  \/ ExtractPrepare
  \/ XBuild
  \/ XRm0
  \/ XSync
  \/ XCreate
  \/ XPipeSpawn
  \/ Child1Exit
  \/ Child2Exit
  \/ XPipeSettle
  \/ XRmHost
  \/ XRename
  \/ XRmc
  \/ XFinRmc
  \/ XFinRmi
  \/ InjectPrepare
  \/ IBuild
  \/ IFinRmi
  \/ IRmHost

\* the options of these invocations: the cache map of two entries, with
\* and without rsync-mode
LiveOpts ==
  { o \in OptsSet : o.cacheMap = CfgTwo /\ ~o.skip /\ ~o.help /\ ~o.debug }

\* the last invocation the budget of invocations allows is about to start
InitLive ==
  /\ opts \in LiveOpts
  /\ argv = ArgvOf(opts)
  /\ extractor \in Trees
  /\ injector \in Trees
  /\ pc = "idle"
  /\ extract = FALSE
  /\ cacheMap = <<>>
  /\ idx = 0
  /\ thrown = FALSE
  /\ exit = "none"
  /\ runs = MaxRuns - 1
  /\ faults = 0
  /\ resolves = 0
  /\ \E h \in HostInits : host = [s \in Sources(GetCacheMap(opts).map) |-> h]
  /\ \E m \in MountInits : mount = [i \in Identities(GetCacheMap(opts).map) |-> m]
  /\ scratch = NoScratch
  /\ images = <<>>
  /\ containers = <<>>
  /\ p1 = "none"
  /\ p2 = "none"
  /\ ops = <<>>
  /\ snap = [s \in Sources(GetCacheMap(opts).map) |-> EmptyFiles]
  /\ rt = [s \in Sources(GetCacheMap(opts).map) |-> "none"]
  /\ xsnap = [s \in Sources(GetCacheMap(opts).map) |-> AbsentDir]
  /\ xt = [s \in Sources(GetCacheMap(opts).map) |-> "none"]
  /\ stateFile = [set |-> TRUE, lines |-> 0]
  /\ xpre = AbsentDir
  /\ diag = <<>>
  /\ twin = NoTwin

SpecLive == InitLive /\ [][Next]_vars /\ WF_vars(Running)

\* ------------------------------------------------------------------------
\* The parse on its own: the invocations on the cache map of one entry whose
\* options parseOpts yields from every source of the boolean options
\* ------------------------------------------------------------------------

ParseBase ==
  [cacheMap |-> CfgOne, dockerfile |-> NoDockerfile, cacheDir |-> Null,
   scratchDir |-> SCRATCH, skip |-> FALSE, debug |-> FALSE, rsync |-> FALSE,
   image |-> DEFAULT_UTILITY_IMAGE, help |-> FALSE]

InitParse ==
  /\ argv \in ArgvSet
  /\ opts = ParseOpts(argv, ParseBase)
  /\ extractor \in Trees
  /\ injector \in Trees
  /\ pc = "idle"
  /\ extract = FALSE
  /\ cacheMap = <<>>
  /\ idx = 0
  /\ thrown = FALSE
  /\ exit = "none"
  /\ runs = 0
  /\ faults = 0
  /\ resolves = 0
  /\ \E h \in HostInits : host = [s \in Sources(GetCacheMap(opts).map) |-> h]
  /\ \E m \in MountInits : mount = [i \in Identities(GetCacheMap(opts).map) |-> m]
  /\ scratch = NoScratch
  /\ images = <<>>
  /\ containers = <<>>
  /\ p1 = "none"
  /\ p2 = "none"
  /\ ops = <<>>
  /\ snap = [s \in Sources(GetCacheMap(opts).map) |-> EmptyFiles]
  /\ rt = [s \in Sources(GetCacheMap(opts).map) |-> "none"]
  /\ xsnap = [s \in Sources(GetCacheMap(opts).map) |-> AbsentDir]
  /\ xt = [s \in Sources(GetCacheMap(opts).map) |-> "none"]
  /\ \E set \in BOOLEAN : stateFile = [set |-> set, lines |-> 0]
  /\ xpre = AbsentDir
  /\ diag = <<>>
  /\ twin = NoTwin

SpecParse == InitParse /\ [][Next]_vars

\* ------------------------------------------------------------------------
\* The resolver on its own: getCacheMap applied to every small configuration
\* ------------------------------------------------------------------------

\* the longest cache-map key and mount id of the resolver's inputs
MaxKeyLen == 3

KeyChars == {"/", ".", "e"}

Keys == UNION { [1..n -> KeyChars] : n \in 1..MaxKeyLen }

CacheDirs == {Null, <<>>, <<"c">>}

BaseOpts ==
  [cacheMap |-> [valid |-> TRUE, entries |-> <<>>], dockerfile |-> NoDockerfile,
   cacheDir |-> Null, scratchDir |-> SCRATCH, skip |-> FALSE, debug |-> FALSE,
   rsync |-> FALSE, image |-> DEFAULT_UTILITY_IMAGE, help |-> FALSE]

\* the keys and ids of the configurations with two entries
PairKeys == { k \in Keys : Len(k) < MaxKeyLen }

GoMod == <<"g","o","-","m","o","d">>

GoPkgMod == <<"/","g","o","/","p","k","g","/","m","o","d">>

CacheMount == <<"c","a","c","h","e","-","m","o","u","n","t">>

\* cache-map {"go-mod": {"target": "/go/pkg/mod", "id": "go-mod"}} with
\* cache-dir cache-mount
GoModOpts ==
  [BaseOpts EXCEPT
     !.cacheMap = [valid |-> TRUE,
                   entries |-> << Entry(GoMod, ObjOption(<< <<TARGET, GoPkgMod>>,
                                                           <<ID, GoMod>> >>)) >>],
     !.cacheDir = CacheMount]

\* cache-map {"<key>": "/x"} and {"<key>": "/x", "<key2>": {"target": "/y", "id": "i"}}
RawInputs ==
  { [BaseOpts EXCEPT
       !.cacheMap = [valid |-> TRUE, entries |-> << Entry(k, StrOption(<<"/","x">>)) >>],
       !.cacheDir = d] : k \in Keys, d \in CacheDirs }
  \cup
  { [BaseOpts EXCEPT
       !.cacheMap = [valid |-> TRUE,
                     entries |-> << Entry(k[1], StrOption(<<"/","x">>)),
                                    Entry(k[2], ObjOption(<< <<TARGET, <<"/","y">> >>,
                                                             <<ID, <<"i">> >> >>)) >>],
       !.cacheDir = d] :
      k \in { q \in PairKeys \X PairKeys : q[1] # q[2] }, d \in CacheDirs }
  \cup {GoModOpts}

FlagTargets == {Null, <<"/","e">>}

\* a cache-map that is not JSON or is {}, with a Dockerfile of one or two mount
\* flags, readable or not, skip-extraction set or not
DockerfileInputs ==
  { [BaseOpts EXCEPT
       !.cacheMap = [valid |-> v, entries |-> <<>>],
       !.dockerfile = [readable |-> r, flags |-> << Flag(c, i, t) >>],
       !.cacheDir = d, !.skip = k] :
      v \in BOOLEAN, r \in BOOLEAN, k \in BOOLEAN, c \in BOOLEAN, i \in {Null} \cup Keys,
      t \in FlagTargets, d \in CacheDirs }
  \cup
  { [BaseOpts EXCEPT
       !.dockerfile = [readable |-> TRUE,
                       flags |-> << Flag(c, i[1], t[1]), Flag(TRUE, i[2], t[2]) >>],
       !.cacheDir = d] :
      c \in BOOLEAN, i \in ({Null} \cup PairKeys) \X ({Null} \cup PairKeys),
      t \in FlagTargets \X FlagTargets, d \in CacheDirs }

ResolveInputs == RawInputs \cup DockerfileInputs

InitResolve ==
  /\ opts \in ResolveInputs
  /\ argv = ArgvOf(opts)
  /\ extractor = "src"
  /\ injector = "src"
  /\ pc \in {"injectCaches", "extractCaches"}
  /\ extract = (pc = "extractCaches")
  /\ cacheMap = <<>>
  /\ idx = 0
  /\ thrown = FALSE
  /\ exit = "running"
  /\ runs = 0
  /\ faults = 0
  /\ resolves = 0
  /\ host = <<>>
  /\ mount = <<>>
  /\ scratch = NoScratch
  /\ images = <<>>
  /\ containers = <<>>
  /\ p1 = "none"
  /\ p2 = "none"
  /\ ops = <<>>
  /\ snap = <<>>
  /\ rt = <<>>
  /\ xsnap = <<>>
  /\ xt = <<>>
  /\ stateFile = [set |-> FALSE, lines |-> 0]
  /\ xpre = AbsentDir
  /\ diag = <<>>
  /\ twin = NoTwin

\* a run from the call of getCacheMap to the first entry or to the end of main
NextResolve == InjectCaches \/ ExtractCaches \/ LoopNext \/ Raise

SpecResolve == InitResolve /\ [][NextResolve]_vars

\* ------------------------------------------------------------------------
\* The names of the images: injectCaches applied to cache maps of one entry
\* with every small key
\* ------------------------------------------------------------------------

\* the longest key of the inputs made of SuffixChars
MaxSuffixLen == 3

SuffixChars == {"/", "-", "A", "1"}

VarCacheApt == <<"/","v","a","r","/","c","a","c","h","e","/","a","p","t">>

SlashedVarCache == <<"/","/","v","a","r","/","/","c","a","c","h","e","/","/">>

GoBuild == <<"G","o","-","B","u","i","l","d">>

SuffixKeys ==
  {VarCacheApt, GoMod, SlashedVarCache, GoBuild}
    \cup UNION { [1..n -> SuffixChars] : n \in 1..MaxSuffixLen }

\* cache-map {"<key>": "/x"}
SuffixOpts ==
  { [BaseOpts EXCEPT
       !.cacheMap = [valid |-> TRUE, entries |-> << Entry(k, StrOption(<<"/","x">>)) >>]] :
      k \in SuffixKeys }

InitSuffix ==
  /\ opts \in SuffixOpts
  /\ argv = ArgvOf(opts)
  /\ extractor = "src"
  /\ injector = "src"
  /\ pc = "injectCaches"
  /\ extract = FALSE
  /\ cacheMap = <<>>
  /\ idx = 0
  /\ thrown = FALSE
  /\ exit = "running"
  /\ runs = 0
  /\ faults = 0
  /\ resolves = 0
  /\ \E h \in HostInits : host = [s \in Sources(GetCacheMap(opts).map) |-> h]
  /\ mount = [i \in Identities(GetCacheMap(opts).map) |-> EmptyFiles]
  /\ scratch = NoScratch
  /\ images = <<>>
  /\ containers = <<>>
  /\ p1 = "none"
  /\ p2 = "none"
  /\ ops = <<>>
  /\ snap = [s \in Sources(GetCacheMap(opts).map) |-> EmptyFiles]
  /\ rt = [s \in Sources(GetCacheMap(opts).map) |-> "none"]
  /\ xsnap = [s \in Sources(GetCacheMap(opts).map) |-> AbsentDir]
  /\ xt = [s \in Sources(GetCacheMap(opts).map) |-> "none"]
  /\ stateFile = [set |-> FALSE, lines |-> 0]
  /\ xpre = AbsentDir
  /\ diag = <<>>
  /\ twin = NoTwin

\* one injection, from injectCaches to the end of main
NextSuffix ==
  \/ InjectCaches
  \/ LoopNext
  \/ Raise
  \/ InjectPrepare
  \/ IBuild
  \/ IFinRmi
  \/ IRmHost

SpecSuffix == InitSuffix /\ [][NextSuffix]_vars

\* ------------------------------------------------------------------------
\* Properties
\* ------------------------------------------------------------------------

\* the records of ops that end the processing of an entry
Ends == {"return", "raise"}

\* the build and data-movement steps of an entry, and its cleanup steps
TransferOps == {"prepare", "build", "sync", "create", "pipe", "rmhost", "rename"}

CleanupOps == {"rm0", "rmc", "rmi", "clean"}

\* the files an entry caches (buildstamp is the program's own)
DataFiles == Files \ {"buildstamp"}

\* C1: round trip: once injectCache has returned for an entry and extractCache
\* has then returned for the same entry, every file the host directory held
\* when the injection started is in the host directory with the same content,
\* in both strategies (stated for the behaviours in which no command failed).
RoundTrip ==
  \A s \in DOMAIN rt :
    (rt[s] = "extracted" /\ faults = 0) =>
      \A f \in DataFiles :
        snap[s][f] # NoFile => host[s].exists /\ host[s].files[f] = snap[s][f]

\* the mount-argument string the claim states for an entry's options
RECURSIVE PairsInOrder(_)
PairsInOrder(es) ==
  IF es = <<>> THEN <<>>
  ELSE (IF Len(es) > 1 THEN PairsInOrder(SubSeq(es, 1, Len(es) - 1)) \o <<",">> ELSE <<>>)
       \o es[Len(es)][1] \o <<"=">> \o es[Len(es)][2]

StatedMountArgs(o) ==
  IF o.str THEN <<"t","y","p","e","=","c","a","c","h","e",",","t","a","r","g","e","t","=">> \o o.target
  ELSE <<"t","y","p","e","=","c","a","c","h","e",",">> \o PairsInOrder(o.entries)

\* C2: the recipe of injectCache and the recipe of extractCache carry the
\* mount-argument string of the entry: type=cache,target=<t> for a bare target,
\* type=cache, and every key=value in the given order otherwise; an entry
\* with an id mounts the cache of that id.
SameMountArgs ==
  pc \in {"x_build", "i_build"} =>
    /\ scratch.dancefile.kind = (IF extract THEN "extract" ELSE "inject")
    /\ scratch.dancefile.mount = StatedMountArgs(Cur.options)
    /\ HasKey(Cur.options, ID) =>
         MountIdentity(scratch.dancefile.mount) = ValueOf(Cur.options, ID)

\* the extraction of an entry with an id is at its build, after an injection
\* of the same entry that returned
SameMountArgsWitness ==
  /\ pc = "x_build"
  /\ HasKey(Cur.options, ID)
  /\ rt[CurSource] = "extracting"

\* C3: idempotence of extraction: when extractCache has returned twice in a
\* row for an entry, with no injection in between, the host directory is the
\* one the first of the two left.
ExtractTwice ==
  \A s \in DOMAIN xt : xt[s] = "twice" => host[s] = xsnap[s]

\* C4: image cleanup on every exit path: where extractCache or injectCache
\* has issued its build and has returned or raised, docker rmi was issued for
\* the entry in between.
ImageRemoved ==
  \A i \in DOMAIN ops :
    ops[i].op = "build" =>
      \A j \in DOMAIN ops :
        (j > i /\ ops[j].e = ops[i].e /\ ops[j].op \in Ends) =>
          \E k \in DOMAIN ops :
            i < k /\ k < j /\ ops[k].e = ops[i].e /\ ops[k].op = "rmi"

\* an invocation ended with an error after a build that failed and the image
\* removal that followed it
ImageRemovedWitness ==
  /\ pc = "idle"
  /\ exit = "nonzero"
  /\ \E i, k \in DOMAIN ops :
       /\ i < k
       /\ ops[i].op = "build"
       /\ ~ops[i].ok
       /\ ops[k].op = "rmi"
       /\ ops[k].e = ops[i].e

\* C5: container cleanup on every exit path: where extractCache has created
\* its container and has returned or raised, docker rm was issued for the
\* entry in between.
ContainerRemoved ==
  \A i \in DOMAIN ops :
    (ops[i].op = "create" /\ ops[i].ok) =>
      \A j \in DOMAIN ops :
        (j > i /\ ops[j].e = ops[i].e /\ ops[j].op \in Ends) =>
          \E k \in DOMAIN ops :
            i < k /\ k < j /\ ops[k].e = ops[i].e /\ ops[k].op = "rmc"

\* C6: cleanup failures never change the outcome of an entry: extractCache
\* and injectCache raise exactly when one of their build and data-movement
\* steps failed, whatever their cleanup steps did.
CleanupNeverDecides ==
  \A j \in DOMAIN ops :
    (ops[j].op \in Ends /\ ops[j].e >= 1) =>
      ( ops[j].op = "raise" <=>
          \E i \in DOMAIN ops :
            i < j /\ ops[i].e = ops[j].e /\ ops[i].op \in TransferOps /\ ~ops[i].ok )

\* an entry returned although the removal of its image failed while the image
\* was there
CleanupNeverDecidesWitness ==
  \E i, k, j \in DOMAIN ops :
    /\ i < k
    /\ k < j
    /\ ops[i].op = "build"
    /\ ops[i].ok
    /\ ops[k].op = "rmi"
    /\ ~ops[k].ok
    /\ ops[j].op = "return"
    /\ ops[i].e = ops[j].e
    /\ ops[k].e = ops[j].e

\* C7: entries are processed one at a time in iteration order: the operations
\* of an invocation are ordered by entry, no operation of an entry is issued
\* before the entry before it has returned, and no child process of an entry
\* runs when the loop goes on.
OneAtATime ==
  /\ \A i, j \in DOMAIN ops : i < j => ops[i].e <= ops[j].e
  /\ \A j \in DOMAIN ops :
       ops[j].e >= 1 =>
         \A e \in 1..(ops[j].e - 1) :
           \E i \in DOMAIN ops : i < j /\ ops[i].e = e /\ ops[i].op = "return"
  /\ pc \in {"loop", "x_prepare", "i_prepare"} => p1 # "running" /\ p2 # "running"

\* an invocation that processed two entries to their return
OneAtATimeWitness ==
  /\ pc = "idle"
  /\ exit = "zero"
  /\ \E i, j \in DOMAIN ops :
       /\ ops[i].e = 1
       /\ ops[i].op = "return"
       /\ ops[j].e = 2
       /\ ops[j].op = "return"

\* C8: fail-fast without retry: after a build, create, copy or sync that
\* failed, no build or data-movement step is issued in the invocation, for
\* this entry or a later one, and the process ends with a non-zero code.
FailFast ==
  \A i \in DOMAIN ops :
    (ops[i].op \in {"build", "create", "pipe", "sync"} /\ ~ops[i].ok) =>
      /\ \A j \in DOMAIN ops : j > i => ops[j].op \notin TransferOps
      /\ exit \in {"running", "nonzero"}
      /\ pc = "idle" => exit = "nonzero"

\* the build of the first of two entries failed and the process has ended
FailFastWitness ==
  /\ pc = "idle"
  /\ Len(cacheMap) = 2
  /\ \E i \in DOMAIN ops : ops[i].op = "build" /\ ~ops[i].ok /\ ops[i].e = 1

\* C9: with skip-extraction set, extractCaches returns with success and
\* without resolving the cache map, changing the scratch directory or a host
\* directory, or issuing an invocation of the engine.
SkipDoesNothing ==
  [][ (pc = "extractCaches" /\ opts.skip) =>
        /\ pc' = "idle"
        /\ exit' = "zero"
        /\ UNCHANGED <<cacheMap, resolves, host, mount, scratch, images,
                       containers, p1, p2, ops>> ]_vars

\* an extraction with skip-extraction set has ended
SkipDoesNothingWitness ==
  /\ pc = "idle"
  /\ extract
  /\ opts.skip
  /\ ~opts.help
  /\ runs >= 1
  /\ exit = "zero"

\* a path holds a parent-directory segment
HasParentSegment(p) ==
  \E i \in DOMAIN SplitSlash(p) : SplitSlash(p)[i] = DOTDOT

\* C10: getCacheMap never returns a host path that holds a parent-directory
\* segment or is absolute, cache-dir set or not.
ResolvedPathsSafe ==
  pc = "loop" =>
    \A i \in DOMAIN cacheMap :
      /\ ~PathIsAbsolute(cacheMap[i].source)
      /\ ~HasParentSegment(cacheMap[i].source)

\* the state right after getCacheMap returned a map
Resolved == pc = "loop" /\ idx = 0 /\ resolves = 1

\* the raw cache-map of the configuration
RawMap == opts.cacheMap.entries

HasRoot == opts.cacheDir # Null /\ opts.cacheDir # <<>>

RewrittenKey(k) == PathJoin(opts.cacheDir, PathBasename(k))

CacheMountGoMod ==
  <<"c","a","c","h","e","-","m","o","u","n","t","/","g","o","-","m","o","d">>

DiscoveredIds ==
  { FlagId(opts.dockerfile.flags[i]) :
      i \in { j \in DOMAIN opts.dockerfile.flags : opts.dockerfile.flags[j].cache } }

\* C12: the resolved map has one entry for every entry of the raw cache-map,
\* each with its own options, and one entry for every distinct cache mount
\* discovered in the Dockerfile.
CollisionFree ==
  Resolved =>
     /\ RawMap # <<>> =>
          /\ Len(cacheMap) = Len(RawMap)
          /\ \A j \in DOMAIN RawMap : \E i \in DOMAIN cacheMap :
               cacheMap[i].options = RawMap[j].options
     /\ RawMap = <<>> => Len(cacheMap) = Cardinality(DiscoveredIds)

\* the cache mount flags of the Dockerfile
CacheFlags ==
  { opts.dockerfile.flags[i] :
      i \in { j \in DOMAIN opts.dockerfile.flags : opts.dockerfile.flags[j].cache } }

\* the host key of a discovered identity
DiscoveredKey(id) ==
  IF opts.cacheDir # Null THEN PathJoin(opts.cacheDir, PathBasename(id))
  ELSE PathBasename(id)

VarCacheTarget ==
  <<"/","v","a","r","/","c","a","c","h","e","-","t","a","r","g","e","t">>

\* C13: with an empty raw cache-map, every cache mount flag of the Dockerfile
\* has an entry in the resolved map whose id is the flag's id, or its target
\* when it has no id, whose target is /var/cache-target and whose key is the
\* base name of that identity, joined to cache-dir when there is one.
AutoDiscovery ==
  (Resolved /\ RawMap = <<>>) =>
     \A f \in CacheFlags :
        LET identity == IF f.id # Null /\ f.id # <<>> THEN f.id ELSE f.target
        IN  \E i \in DOMAIN cacheMap :
              /\ cacheMap[i].source = DiscoveredKey(identity)
              /\ ~cacheMap[i].options.str
              /\ ValueOf(cacheMap[i].options, ID) = identity
              /\ ValueOf(cacheMap[i].options, TARGET) = VarCacheTarget

\* the raw cache-map holds a structured value without target
LacksTarget == \E i \in DOMAIN RawMap : ~HasTargetPath(RawMap[i].options)

\* C14: when a structured value of the cache-map lacks target, getCacheMap
\* never returns a map holding that entry, no recipe is written with a target
\* put in its place, and no build or data-movement step of any entry runs.
TargetRequired ==
  LacksTarget =>
     /\ \A i \in DOMAIN cacheMap : HasTargetPath(cacheMap[i].options)
     /\ (pc \in {"x_build", "i_build"} /\ scratch.dancefile # NoRecipe)
          => HasTargetPath(Cur.options)
     /\ \A k \in DOMAIN ops : ops[k].op \notin (TransferOps \ {"prepare"})

\* cache-map is {} and the Dockerfile cannot be read
EmptyAndUnreadable ==
  opts.cacheMap.valid /\ RawMap = <<>> /\ ~opts.dockerfile.readable

\* C15: with cache-map {} and a Dockerfile that cannot be read, getCacheMap
\* throws and the process exits with a non-zero code: it never returns a map,
\* empty or not, and an invocation that called it never ends with code 0 (the
\* only one that does is the extraction that skip-extraction ends before
\* getCacheMap is called).
EmptyConfigFails ==
  EmptyAndUnreadable =>
     /\ pc # "loop"
     /\ resolves = 1 =>
          /\ thrown /\ cacheMap = <<>> /\ pc \in {"raise", "idle"}
          /\ pc = "idle" => exit = "nonzero"
     /\ exit = "zero" => (resolves = 0 /\ extract /\ opts.skip)

EmptyConfigFailsWitness ==
  /\ EmptyAndUnreadable
  /\ resolves = 1
  /\ pc = "idle"
  /\ exit = "nonzero"

\* a cache mount flag of the Dockerfile has neither id nor target
MissingIdentity ==
  \E f \in CacheFlags : (f.id = Null \/ f.id = <<>>) /\ f.target = Null

\* getCacheMap threw: no map came back
ResolveFailed == thrown /\ cacheMap = <<>> /\ pc \in {"raise", "idle"}

\* C16: once getCacheMap was called, it has thrown and returned no map when
\* cache-map is {} and a cache mount flag of the readable Dockerfile has
\* neither id nor target, and when cache-map is not valid JSON.
DiscoveryFails ==
  resolves = 1 =>
     /\ (opts.cacheMap.valid /\ RawMap = <<>> /\ opts.dockerfile.readable
           /\ MissingIdentity) => ResolveFailed
     /\ ~opts.cacheMap.valid => ResolveFailed

DiscoveryFailsWitness ==
  /\ resolves = 1
  /\ opts.cacheMap.valid /\ RawMap = <<>> /\ opts.dockerfile.readable
  /\ Len(opts.dockerfile.flags) = 2
  /\ FlagId(opts.dockerfile.flags[1]) # Null
  /\ opts.dockerfile.flags[1].cache
  /\ opts.dockerfile.flags[2].id = Null /\ opts.dockerfile.flags[2].target = Null
  /\ pc = "raise"
  /\ ResolveFailed

\* C17: any two entries of a resolved cache map with different host paths
\* get different suffixes, hence different names for their extraction image,
\* their injection image and their container.
DistinctNames ==
  Resolved =>
     \A i, j \in DOMAIN cacheMap :
        cacheMap[i].source # cacheMap[j].source =>
           /\ GenerateUniqueSuffix(cacheMap[i].source)
                # GenerateUniqueSuffix(cacheMap[j].source)
           /\ ExtractImageName(cacheMap[i].source) # ExtractImageName(cacheMap[j].source)
           /\ InjectImageName(cacheMap[i].source) # InjectImageName(cacheMap[j].source)
           /\ ContainerName(cacheMap[i].source) # ContainerName(cacheMap[j].source)

RECURSIVE AlnumWords(_, _, _)
\* the maximal runs of letters and digits of s, lower-cased, in order
AlnumWords(s, cur, acc) ==
  IF s = <<>> THEN (IF cur = <<>> THEN acc ELSE Append(acc, cur))
  ELSE IF IsAlnum(Head(s))
    THEN AlnumWords(Tail(s), Append(cur, ToLowerChar(Head(s))), acc)
  ELSE AlnumWords(Tail(s), <<>>, IF cur = <<>> THEN acc ELSE Append(acc, cur))

\* what the four rewriting steps leave: the runs of letters and digits,
\* lower-cased, with one "-" between neighbours
StatedSuffix(s) == JoinWith(AlnumWords(s, <<>>, <<>>), <<"-">>)

\* C18: the image an injection builds is named dance:inject-<suffix>, where the
\* suffix depends on the host path alone and is the path with every character
\* that is not a letter or digit replaced by "-", runs of "-" collapsed, a
\* leading and a trailing "-" stripped, and lower-cased: /var/cache/apt gives
\* var-cache-apt, go-mod gives go-mod, //var//cache// gives var-cache and
\* Go-Build gives go-build.
SuffixRule ==
  \A img \in DOMAIN images :
     /\ idx \in DOMAIN cacheMap
     /\ img = <<"dance:inject-", StatedSuffix(CurSource)>>
     /\ CurSource = VarCacheApt
          => img[2] = <<"v","a","r","-","c","a","c","h","e","-","a","p","t">>
     /\ CurSource = GoMod => img[2] = GoMod
     /\ CurSource = SlashedVarCache
          => img[2] = <<"v","a","r","-","c","a","c","h","e">>
     /\ CurSource = GoBuild => img[2] = <<"g","o","-","b","u","i","l","d">>

SuffixRuleWitness ==
  /\ pc = "i_fin_rmi"
  /\ CurSource = SlashedVarCache
  /\ DOMAIN images = { <<"dance:inject-", <<"v","a","r","-","c","a","c","h","e">> >> }

\* injectCache or extractCache is about to start on an entry
AtEntry == pc \in {"i_prepare", "x_prepare"} /\ idx \in DOMAIN cacheMap

\* C19: when the host path of the entry or the scratch directory is absolute,
\* holds a parent-directory segment or a forbidden character, injectCache and
\* extractCache throw at once: the scratch directory, the host directories,
\* the cache mounts, the images and the containers stay as they are and no
\* later step of the entry runs.
ValidationFirst ==
  [][ (AtEntry /\ ~(ValidateSafePath(CurSource) /\ ValidateSafePath(opts.scratchDir)))
        => /\ pc' = "raise"
           /\ thrown'
           /\ UNCHANGED <<scratch, host, mount, images, containers>> ]_vars

\* a character outside [A-Za-z0-9/._=,-]
HasForbiddenChar(value) ==
  \E i \in DOMAIN value :
     ~(IsAlnum(value[i]) \/ value[i] \in {"/", ".", "_", "-", "=", ","})

\* C20: when the target path or the mount arguments of the entry hold a
\* character outside [A-Za-z0-9/._=,-], injectCache and extractCache throw
\* before a recipe is written: no Dancefile holding that text is on disk and no
\* build step runs.
RecipeGate ==
  [][ (/\ AtEntry
       /\ HasTargetPath(Cur.options)
       /\ \/ HasForbiddenChar(GetTargetPath(Cur.options))
          \/ HasForbiddenChar(GetMountArgsString(Cur.options)))
        => /\ pc' = "raise"
           /\ thrown'
           /\ scratch'.dancefile \in {scratch.dancefile, NoRecipe}
           /\ UNCHANGED <<mount, images, containers>> ]_vars

\* the steps of extractCache from the build to the start of the pipe
ExtractEarly == {"x_build", "x_rm0", "x_sync", "x_create", "x_pipe"}

\* the steps of extractCache that unpack into and move out of the scratch directory
ExtractUnpack == {"x_settle", "x_rmhost", "x_rename"}

\* C21: while the recipe of an entry is built, the scratch directory holds
\* the recipe of that entry and, in an extraction, its buildstamp, and nothing
\* else; while the data of an entry is unpacked, the dance-cache directory in
\* the scratch directory holds only files of the container of that entry.
ScratchIsolation ==
  /\ pc = "i_build" =>
       /\ scratch.exists /\ ~scratch.buildstamp /\ scratch.dance = AbsentDir
       /\ scratch.dancefile.kind = "inject"
       /\ scratch.dancefile.mount = GetMountArgsString(Cur.options)
       /\ scratch.dancefile.target = GetTargetPath(Cur.options)
  /\ pc \in ExtractEarly =>
       /\ scratch.exists /\ scratch.buildstamp /\ scratch.dance = AbsentDir
       /\ scratch.dancefile.kind = "extract"
       /\ scratch.dancefile.mount = GetMountArgsString(Cur.options)
       /\ scratch.dancefile.target = GetTargetPath(Cur.options)
  /\ pc \in ExtractUnpack =>
       /\ scratch.exists /\ scratch.buildstamp
       /\ scratch.dancefile.kind = "extract"
       /\ scratch.dancefile.mount = GetMountArgsString(Cur.options)
       /\ \A f \in Files :
            scratch.dance.files[f] \in {NoFile, images[ExtractImageName(CurSource)][f]}

\* the second entry of an extraction is built after the first left its
\* recipe and buildstamp in the scratch directory
ScratchIsolationWitness ==
  /\ pc = "x_build"
  /\ idx = 2
  /\ \E k \in DOMAIN ops : ops[k].e = 1 /\ ops[k].op = "return"
  /\ scratch.dancefile.target = GetTargetPath(cacheMap[2].options)
  /\ scratch.dancefile.target # GetTargetPath(cacheMap[1].options)
  /\ scratch.dance = AbsentDir

\* the entry the loop is at has a safe host path, a target, and recipe text
\* without forbidden characters
WellFormedEntry ==
  /\ ValidateSafePath(CurSource)
  /\ ValidateSafePath(opts.scratchDir)
  /\ HasTargetPath(Cur.options)
  /\ ~HasForbiddenChar(GetTargetPath(Cur.options))
  /\ ~HasForbiddenChar(GetMountArgsString(Cur.options))

\* C22: when injectCache starts on a well-formed entry whose host directory
\* does not exist and no command fails, it creates the directory, writes
\* buildstamp into it and goes on to the build.
FirstRunInjection ==
  [][ (/\ pc = "i_prepare"
       /\ ~host[CurSource].exists
       /\ WellFormedEntry
       /\ faults' = faults)
        => /\ pc' = "i_build"
           /\ ~thrown'
           /\ host'[CurSource] = Dir([EmptyFiles EXCEPT !["buildstamp"] = "S"]) ]_vars

\* the first injection of a behaviour is at its build and the host directory,
\* absent before, holds buildstamp alone
FirstRunInjectionWitness ==
  /\ pc = "i_build"
  /\ runs = 0
  /\ idx = 1
  /\ snap[CurSource] = EmptyFiles
  /\ host[CurSource] = Dir([EmptyFiles EXCEPT !["buildstamp"] = "S"])

\* ops holds a record of entry e with this operation and outcome
Did(e, op, ok) == \E k \in DOMAIN ops : ops[k] = [e |-> e, op |-> op, ok |-> ok]

\* C23: in an injection, the host directory of an entry is removed only after
\* the build of that entry succeeded; after a failed build the directory is
\* still there, no removal is attempted and the exception leaves injectCache;
\* a removal that fails is ignored and injectCache returns.
RemovalAfterBuild ==
  ~extract =>
     /\ \A k \in DOMAIN ops :
          ops[k].op = "clean" =>
             \E j \in 1..(k - 1) : ops[j] = [e |-> ops[k].e, op |-> "build", ok |-> TRUE]
     /\ pc = "i_rmhost" => (~thrown /\ Did(idx, "build", TRUE))
     /\ \A e \in DOMAIN cacheMap :
          Did(e, "build", FALSE) =>
             /\ ~Did(e, "clean", TRUE) /\ ~Did(e, "clean", FALSE) /\ ~Did(e, "return", TRUE)
             /\ host[cacheMap[e].source].exists
             /\ thrown
             /\ pc \in {"i_fin_rmi", "raise", "idle"}
             /\ pc = "idle" => exit = "nonzero"
     /\ \A e \in DOMAIN cacheMap :
          Did(e, "clean", FALSE) => Did(e, "return", TRUE)

\* the removal of the host directory failed after a build that succeeded, and
\* injectCache returned
RemovalAfterBuildWitness ==
  /\ ~extract
  /\ pc = "loop"
  /\ Did(1, "build", TRUE)
  /\ Did(1, "clean", FALSE)
  /\ Did(1, "return", TRUE)
  /\ host[cacheMap[1].source].exists

\* the cache mount the entry e names
MountOfEntry(e) == MountOf(MountIdentity(GetMountArgsString(cacheMap[e].options)))

\* C24: an extraction of a well-formed entry whose cache mount holds nothing
\* does not throw when no command fails, and once extractCache has returned
\* the host directory of the entry exists and is empty, with the rsync
\* strategy as with the cp strategy.
EmptyMountExtraction ==
  extract =>
     /\ (/\ idx \in DOMAIN cacheMap
         /\ faults = 0
         /\ WellFormedEntry
         /\ MountOfEntry(idx) = EmptyFiles) => ~thrown
     /\ \A e \in DOMAIN cacheMap :
          (Did(e, "return", TRUE) /\ MountOfEntry(e) = EmptyFiles)
             => host[cacheMap[e].source] = Dir(EmptyFiles)

\* an extraction with the cp strategy has returned for an entry whose mount
\* is empty
EmptyMountExtractionWitness ==
  /\ extract
  /\ ~IsRsyncMode(opts)
  /\ runs = 0
  /\ Did(1, "pipe", TRUE)
  /\ Did(1, "rename", TRUE)
  /\ Did(1, "return", TRUE)
  /\ MountOfEntry(1) = EmptyFiles
  /\ host[cacheMap[1].source] = Dir(EmptyFiles)

\* C25: once an extraction has returned for an entry, the host directory of
\* the entry exists and holds exactly the files, with their contents, that the
\* cache mount of the entry holds: whatever else the host directory held is
\* gone, with the rsync strategy as with the cp strategy.
ExtractionMirrors ==
  extract =>
     \A e \in DOMAIN cacheMap :
        Did(e, "return", TRUE) => host[cacheMap[e].source] = Dir(MountOfEntry(e))

\* what the build of an injection, on the entry the loop is at, must leave in
\* the mount of the entry under the differential rule: the files the mount
\* held keep their content and the files of the host alone are added
KeepsMountFiles ==
  LET old == MountOfEntry(idx)
      new == MountOfEntry(idx)'
  IN  \A f \in Files :
         new[f] = IF old[f] # NoFile THEN old[f] ELSE host[CurSource].files[f]

\* the same under the bulk rule: every file of the host lands in the mount
\* with the host's content
OverwritesMountFiles ==
  \A f \in Files :
     host[CurSource].files[f] # NoFile
        => (MountOfEntry(idx)')[f] = host[CurSource].files[f]

\* C26: the build of an injection in which no command fails leaves the mount
\* of the entry as the differential rule says when rsync-mode is on, and as
\* the bulk rule says when it is off.
DifferentialInjection ==
  [][ (pc = "i_build" /\ faults' = faults)
        => IF IsRsyncMode(opts) THEN KeepsMountFiles ELSE OverwritesMountFiles ]_vars

\* C27: in extractCache, as long as no command fails, the build goes on to
\* the removal of the container whether or not an image of its name exists;
\* the removal before the transfer leaves no container of the entry's name
\* and goes on without an exception whether or not there was one; and the
\* creation that follows it succeeds.
StaleRecovery ==
  [][ /\ (pc = "x_build" /\ faults' = faults) => (pc' = "x_rm0" /\ ~thrown')
      /\ (pc = "x_rm0" /\ faults' = faults)
            => /\ ContainerName(CurSource) \notin DOMAIN containers'
               /\ ~thrown'
               /\ pc' \in {"x_create", "x_sync"}
      /\ (pc = "x_create" /\ faults' = faults /\ Did(idx, "rm0", TRUE))
            => /\ pc' = "x_pipe"
               /\ ~thrown'
               /\ ContainerName(CurSource) \in DOMAIN containers' ]_vars

\* an extraction found the container an earlier run had left, removed it,
\* and has returned
StaleRecoveryWitness ==
  /\ extract
  /\ runs > 0
  /\ \E e \in DOMAIN cacheMap : Did(e, "rm0", TRUE) /\ Did(e, "return", TRUE)

\* the image the selection rule names for the options: the user's image when
\* it is set and is not the default, else the rsync image in rsync mode, else
\* the default
SelectedImage ==
  IF opts.image # "" /\ opts.image # DEFAULT_UTILITY_IMAGE THEN opts.image
  ELSE IF opts.rsync THEN RSYNC_UTILITY_IMAGE
  ELSE DEFAULT_UTILITY_IMAGE

\* C28: the recipe of every build, of an injection as of an extraction, starts
\* FROM the image the selection rule names for the options.
SameUtilityImage ==
  pc \in {"i_build", "x_build"} => scratch.dancefile.from = SelectedImage

\* neither a flag nor an action input sets rsync-mode
RsyncModeUnset == argv.rsyncFlag = "unset" /\ argv.rsyncInput = ""

\* C29: in an invocation where neither a flag nor an action input sets
\* rsync-mode the parsed rsync-mode is false, and every recipe of it copies
\* with cp and starts FROM the default busybox image.
DefaultSyncStrategy ==
  RsyncModeUnset =>
     /\ ~opts.rsync
     /\ pc \in {"i_build", "x_build"} =>
           /\ scratch.dancefile.cmd = "cp -p -R"
           /\ scratch.dancefile.from = DEFAULT_UTILITY_IMAGE

\* C30: an invocation never calls getCacheMap more than once, with is-debug
\* on as with is-debug off; once the loop is at an entry the map has been
\* resolved, exactly once, and the map the loop runs over is the map
\* getCacheMap gave.
ResolvedOnce ==
  /\ resolves <= 1
  /\ idx >= 1 => (resolves = 1 /\ cacheMap = GetCacheMap(opts).map)

\* the running invocation extracts with the cp strategy
BulkCopyExtraction == extract /\ (extractor = "unnamed" \/ ~IsRsyncMode(opts))

\* C31: in an extraction with the cp strategy, a step changes the files of a
\* host directory only at the removal of the host directory or at the rename,
\* after the pipeline of the entry has succeeded: up to there, and so when
\* the build, the creation of the container or the pipeline fails, the host
\* directory holds the files it held when extractCache started.
HostKeptUntilUnpacked ==
  [][ (BulkCopyExtraction /\ \E s \in DOMAIN host : host'[s].files # host[s].files)
        => /\ pc \in {"x_rmhost", "x_rename"}
           /\ Did(idx, "pipe", TRUE) ]_vars

\* the pipeline of an entry failed in an extraction with the cp strategy and
\* the host directory still holds its file, which differs from the mount's
HostKeptUntilUnpackedWitness ==
  /\ BulkCopyExtraction
  /\ idx \in DOMAIN cacheMap
  /\ Did(idx, "pipe", FALSE)
  /\ host[CurSource].files["f"] = "C"
  /\ MountOfEntry(idx)["f"] = "D"

\* C32: the pipeline of the entry the loop is at has succeeded only when both
\* children closed with code 0, and has failed only when one of them failed;
\* extractCache replaces the host directory only after a pipeline that
\* succeeded, and an entry whose pipeline failed never returns: the
\* exception is pending or has ended the invocation.
PipelineOutcome ==
  /\ Did(idx, "pipe", TRUE) => (p1 = "ok" /\ p2 = "ok")
  /\ Did(idx, "pipe", FALSE) =>
        /\ p1 = "failed" \/ p2 = "failed"
        /\ ~Did(idx, "pipe", TRUE)
        /\ ~Did(idx, "return", TRUE)
        /\ thrown
  /\ pc \in {"x_rmhost", "x_rename"} => Did(idx, "pipe", TRUE)
  /\ (pc = "x_settle" /\ p1 = "ok" /\ p2 = "ok") => ~thrown

\* the copy closed with code 0, the unpacking failed, and the invocation has
\* ended with a nonzero code
PipelineOutcomeWitness ==
  /\ Did(idx, "pipe", FALSE)
  /\ p1 = "ok"
  /\ p2 = "failed"
  /\ exit = "nonzero"

\* the positions of an invocation inside injectCaches
InjectPcs == {"injectCaches", "i_prepare", "i_build", "i_fin_rmi", "i_rmhost"}

\* C33: with GITHUB_STATE set, an invocation of the main step that has
\* reached injectCaches or has issued any operation began by appending the
\* marker, so the file holds it whatever becomes of the injection; an
\* invocation of the post step appends no marker and never is inside
\* injectCaches; and the file holds at most one marker per invocation begun.
MarkerFirst ==
  /\ (stateFile.set /\ ~extract /\ (pc \in InjectPcs \/ ops # <<>>))
        => /\ ops # <<>>
           /\ ops[1].op = "marker"
           /\ ops[1].ok => stateFile.lines >= 1
           /\ ~ops[1].ok => \A k \in DOMAIN ops : ops[k].op \in {"marker", "raise"}
  /\ extract =>
        /\ pc \notin InjectPcs
        /\ \A k \in DOMAIN ops : ops[k].op # "marker"
  /\ \A k \in DOMAIN ops : ops[k].op = "marker" => k = 1
  /\ stateFile.lines <= runs + (IF pc = "idle" THEN 0 ELSE 1)

\* an injection whose build failed has ended with a nonzero code, and the
\* marker is in the file
MarkerFirstWitness ==
  /\ ~extract
  /\ exit = "nonzero"
  /\ Did(1, "build", FALSE)
  /\ ops[1] = [e |-> 0, op |-> "marker", ok |-> TRUE]
  /\ stateFile.lines >= 1

\* extractCache has just ended for the entry the loop is at, with a return
\* or with an exception
ExtractExit == extract /\ idx \in DOMAIN cacheMap /\ pc \in {"loop", "raise"}

\* the host directory of the entry holds what it held when extractCache
\* started
HoldsOld ==
  /\ host[CurSource].files = xpre.files
  /\ xpre.exists => host[CurSource].exists

\* C34: when an extractCache with the cp strategy ends, with a return or
\* with an exception, the host directory of the entry holds what it held
\* when extractCache started, or it is the unpacked directory, renamed into
\* place as a whole.
OldOrNew ==
  (BulkCopyExtraction /\ ExtractExit) => (HoldsOld \/ Did(idx, "rename", TRUE))

\* C35: in an injection, once injectCache has removed the host directory of
\* an entry, every file the directory held when injectCache started is in
\* the cache mount of the entry.
NoLostCache ==
  ~extract =>
     \A e \in DOMAIN cacheMap :
        Did(e, "clean", TRUE) =>
           \A f \in Files :
              snap[cacheMap[e].source][f] # NoFile => MountOfEntry(e)[f] # NoFile

\* the names of the files a directory content holds
FileSet(fs) == { f \in Files : fs[f] # NoFile }

\* C36: the host directory holds buildstamp when the build of an injection
\* starts; once injectCache has returned for an entry the cache mount of the
\* entry holds buildstamp and every file the host directory held when the
\* injection started; and once extractCache has then returned for the entry
\* the host directory holds those files and buildstamp, and no other.
BuildstampTravels ==
  /\ pc = "i_build" => "buildstamp" \in FileSet(host[CurSource].files)
  /\ \A e \in DOMAIN cacheMap :
        LET s == cacheMap[e].source
        IN  /\ rt[s] \in {"injected", "extracting", "extracted"} =>
                 (FileSet(snap[s]) \cup {"buildstamp"}) \subseteq FileSet(MountOfEntry(e))
            /\ rt[s] = "extracted" =>
                 /\ host[s].exists
                 /\ FileSet(host[s].files) = FileSet(snap[s]) \cup {"buildstamp"}

\* C37: a child process of the pipeline runs only while extractCache awaits
\* runPiped: once runPiped has settled, and so during the removal of the
\* container and of the image, neither the copy nor the unpacking is running.
ChildrenDoneAtSettle ==
  pc # "x_settle" => (p1 # "running" /\ p2 # "running")

\* C38: when every step that can be taken is taken in the end, an invocation
\* that runs ends, with code zero or with a nonzero code; and the loop goes
\* from an entry to the one after it only, so no entry is processed twice.
Termination ==
  /\ (exit = "running") ~> (exit \in {"zero", "nonzero"} /\ pc = "idle")
  /\ [][ (pc = "loop" /\ pc' \in {"x_prepare", "i_prepare"})
            => (idx' = idx + 1 /\ idx' <= Len(cacheMap)) ]_vars

\* an invocation has ended after the loop went through both entries of the map
TerminationWitness ==
  /\ pc = "idle"
  /\ exit = "zero"
  /\ Len(cacheMap) = 2
  /\ idx = 2
  /\ Did(1, "return", TRUE)
  /\ Did(2, "return", TRUE)

\* ------------------------------------------------------------------------
\* Two invocations that differ in the debug flag only
\* ------------------------------------------------------------------------

\* the options of the first of the two invocations
TwinOpts ==
  [cacheMap : {CfgOne, CfgTwo, CfgUnsafe, CfgDirty, CfgNoTarget},
   dockerfile : {NoDockerfile}, cacheDir : {Null}, scratchDir : {SCRATCH},
   skip : BOOLEAN, debug : BOOLEAN, rsync : BOOLEAN,
   image : {DEFAULT_UTILITY_IMAGE}, help : BOOLEAN]

\* how an invocation ended: what it issued, the files and the engine it
\* left, and its exit code; diag is what it did for diagnostics only
Outcome ==
  [extract |-> extract, ops |-> ops, diag |-> diag, host |-> host, mount |-> mount,
   scratch |-> scratch, images |-> images, containers |-> containers,
   stateFile |-> stateFile, exit |-> exit]

\* the first invocation: the commands and the file operations of the
\* transfer succeed, the diagnostics are free to fail
InitTwin ==
  /\ opts \in TwinOpts
  /\ argv = ArgvOf(opts)
  /\ extractor \in Trees
  /\ injector \in Trees
  /\ pc = "idle"
  /\ extract = FALSE
  /\ cacheMap = <<>>
  /\ idx = 0
  /\ thrown = FALSE
  /\ exit = "none"
  /\ runs = MaxRuns - 2
  /\ faults = MaxFaults
  /\ resolves = 0
  /\ \E h \in HostInits : host = [s \in Sources(GetCacheMap(opts).map) |-> h]
  /\ \E m \in MountInits : mount = [i \in Identities(GetCacheMap(opts).map) |-> m]
  /\ scratch = NoScratch
  /\ images = <<>>
  /\ containers = <<>>
  /\ p1 = "none"
  /\ p2 = "none"
  /\ ops = <<>>
  /\ snap = [s \in Sources(GetCacheMap(opts).map) |-> EmptyFiles]
  /\ rt = [s \in Sources(GetCacheMap(opts).map) |-> "none"]
  /\ xsnap = [s \in Sources(GetCacheMap(opts).map) |-> AbsentDir]
  /\ xt = [s \in Sources(GetCacheMap(opts).map) |-> "none"]
  /\ \E set \in BOOLEAN : stateFile = [set |-> set, lines |-> 0]
  /\ xpre = AbsentDir
  /\ diag = <<>>
  /\ twin = [phase |-> 1, host |-> host, mount |-> mount, first |-> <<>>]

\* the second invocation: the same arguments but for the debug flag, from
\* the state the first invocation started from
Replay ==
  /\ pc = "idle"
  /\ twin.phase = 1
  /\ exit \in {"zero", "nonzero"}
  /\ twin' = [twin EXCEPT !.phase = 2, !.first = Outcome]
  /\ opts' = [opts EXCEPT !.debug = ~@]
  /\ argv' = ArgvOf(opts')
  /\ host' = twin.host
  /\ mount' = twin.mount
  /\ scratch' = NoScratch
  /\ images' = <<>>
  /\ containers' = <<>>
  /\ stateFile' = [stateFile EXCEPT !.lines = 0]
  /\ exit' = "none"
  /\ ops' = <<>>
  /\ diag' = <<>>
  /\ resolves' = 0
  /\ cacheMap' = <<>>
  /\ idx' = 0
  /\ snap' = [s \in DOMAIN snap |-> EmptyFiles]
  /\ rt' = [s \in DOMAIN rt |-> "none"]
  /\ xsnap' = [s \in DOMAIN xsnap |-> AbsentDir]
  /\ xt' = [s \in DOMAIN xt |-> "none"]
  /\ xpre' = AbsentDir
  /\ UNCHANGED <<extractor, injector, pc, extract, thrown, runs, faults, p1, p2>>

NextTwin == Next \/ Replay

SpecTwin == InitTwin /\ [][NextTwin]_vars

\* the build invocations among the operations issued
Builds(log) == { k \in DOMAIN log : log[k].op = "build" }

\* the --progress=plain arguments among the diagnostics
ProgressArgs(d) == { k \in DOMAIN d : d[k] = "--progress=plain" }

\* the second invocation has ended and ran the step the first one ran
TwinEnded ==
  /\ twin.phase = 2
  /\ pc = "idle"
  /\ exit \in {"zero", "nonzero"}
  /\ extract = twin.first.extract

\* C39: two invocations that differ in the debug flag only, started from the
\* same state, issue the same operations in the same order, each build of
\* the debug one with the one extra argument --progress=plain, leave the
\* same files, images and containers, and end with the same exit code.
DebugNeutral ==
  TwinEnded =>
    /\ ops = twin.first.ops
    /\ host = twin.first.host
    /\ mount = twin.first.mount
    /\ scratch = twin.first.scratch
    /\ images = twin.first.images
    /\ containers = twin.first.containers
    /\ stateFile = twin.first.stateFile
    /\ exit = twin.first.exit
    /\ Cardinality(ProgressArgs(diag)) =
         IF IsDebug(opts) THEN Cardinality(Builds(ops)) ELSE 0
    /\ Cardinality(ProgressArgs(twin.first.diag)) =
         IF IsDebug(opts) THEN 0 ELSE Cardinality(Builds(ops))

\* a debug extraction that inspected directories and built with the extra
\* argument has replaced the host directory, after the same extraction
\* without the flag
DebugNeutralWitness ==
  /\ TwinEnded
  /\ IsDebug(opts)
  /\ extract
  /\ exit = "zero"
  /\ Did(1, "build", TRUE)
  /\ \E k \in DOMAIN diag : diag[k] = "inspect"
  /\ ProgressArgs(diag) # {}
  /\ host # twin.host
====
